---- MODULE Spec2Model ----
(***************************************************************************)
(* Pluggable CPU scheduling framework: the framework core (scheduler.c)    *)
(* and its policies (round_robin.c, priority.c, lottery.c, cfs.c,          *)
(* realtime.c, multilevel_queue.c).  Every C function is an operator from  *)
(* a "world" record                                                        *)
(* (the globals of all translation units) to the world after the call, so  *)
(* that a handler that calls other functions is one action.  Linked        *)
(* structures are modelled at pointer level: a node is an index into its   *)
(* pool, a pointer is an index or NULL.                                    *)
(***************************************************************************)
EXTENDS Integers, Sequences, FiniteSets, TLC

VARIABLES kern, rr, prio, lot, cfs, rt, mlfq

vars == <<kern, rr, prio, lot, cfs, rt, mlfq>>

NULL == 0 - 1

(* ---------------------------------------------------------------------- *)
(* Bounds of the model                                                     *)
(* ---------------------------------------------------------------------- *)
NPROC == 3
MaxTicks == 2
MaxQuantumArg == 1
(* priority_boost is explored up to MaxBoost levels above PRIORITY_DEFAULT. *)
MaxBoost == 1
MaxSystemTicks == 1

Pids == 0..(NPROC - 1)
PidArgs == NULL..NPROC

Min(a, b) == IF a < b THEN a ELSE b
Max(a, b) == IF a > b THEN a ELSE b

(* ---------------------------------------------------------------------- *)
(* scheduler.h                                                             *)
(* ---------------------------------------------------------------------- *)
DEFAULT_QUANTUM == 10
MIN_QUANTUM == 1
MAX_QUANTUM == 1000
PRIORITY_MAX == 99
PRIORITY_DEFAULT == 50

(* The world: the framework's globals (k) and each policy's globals, and   *)
(* the content of the stack slot that an uninitialised local of the        *)
(* operation occupies (set by the operation's caller, see Stack).          *)
World ==
    [k |-> kern, rr |-> rr, prio |-> prio, lot |-> lot, cfs |-> cfs, rt |-> rt,
     mlfq |-> mlfq, stack |-> [level |-> 0, word |-> 0]]

(* context_switch(old, new) is external; the model records that it was     *)
(* invoked during the current operation.                                   *)
context_switch(w, old, new) == [w EXCEPT !.k.ctx = TRUE]

(* x is computed once and handed to F.                                     *)
Bind(x, F(_)) == F(x)

(* Entry of an operation: nothing has been switched yet.                   *)
Enter == [World EXCEPT !.k.ctx = FALSE]

(* Entry of an operation whose uninitialised locals hold g.                *)
Stack(g) == [Enter EXCEPT !.stack = g]

(* ---------------------------------------------------------------------- *)
(* round_robin.c                                                           *)
(* ---------------------------------------------------------------------- *)
RR_DEFAULT_QUANTUM == 10
RR_MIN_QUANTUM == 1
RR_MAX_QUANTUM == 100

(* A node of rr_node_pool.  total_time and rounds only count and are never *)
(* read by the scheduler; they are left out.  The fields of a node on the  *)
(* free list other than next are dead (rr_node_alloc overwrites them) and  *)
(* are kept at fixed values.                                               *)
RRFreeNode(nxt) == [pid |-> NULL, time_remaining |-> 0, next |-> nxt, prev |-> NULL]

rr_pool_init ==
    [i \in 0..(NPROC - 1) |-> RRFreeNode(IF i < NPROC - 1 THEN i + 1 ELSE NULL)]

RRStatic ==
    [head |-> NULL, current |-> NULL, count |-> 0, quantum |-> RR_DEFAULT_QUANTUM,
     free |-> NULL, node |-> [i \in 0..(NPROC - 1) |-> RRFreeNode(NULL)]]

round_robin_init(w) ==
    [w EXCEPT !.rr = [head |-> NULL, current |-> NULL, count |-> 0,
                      quantum |-> RR_DEFAULT_QUANTUM,
                      free |-> 0, node |-> rr_pool_init]]

round_robin_shutdown(w) ==
    [w EXCEPT !.rr.head = NULL, !.rr.current = NULL, !.rr.count = 0]

RECURSIVE RRFindFrom(_, _, _, _)
RRFindFrom(q, n, pid, fuel) ==
    IF q.node[n].pid = pid THEN n
    ELSE IF q.node[n].next = q.head \/ q.node[n].next = NULL \/ fuel = 0 THEN NULL
    ELSE RRFindFrom(q, q.node[n].next, pid, fuel - 1)

rr_find_node(q, pid) ==
    IF q.head = NULL THEN NULL ELSE RRFindFrom(q, q.head, pid, NPROC)

round_robin_enqueue(w, pid) ==
    LET q == w.rr IN
    IF pid < 0 \/ pid >= NPROC THEN w
    ELSE IF rr_find_node(q, pid) # NULL THEN w
    ELSE IF q.free = NULL THEN w
    ELSE LET n == q.free
             free2 == q.node[n].next
         IN IF q.head = NULL
            THEN [w EXCEPT !.rr = [q EXCEPT
                     !.free = free2,
                     !.node[n] = [pid |-> pid, time_remaining |-> q.quantum,
                                  next |-> n, prev |-> n],
                     !.head = n, !.current = n, !.count = @ + 1]]
            ELSE LET h == q.head
                     t == q.node[h].prev
                     n1 == [q.node EXCEPT ![n] = [pid |-> pid,
                                time_remaining |-> q.quantum, next |-> h, prev |-> t]]
                     n2 == [n1 EXCEPT ![t].next = n]
                     n3 == [n2 EXCEPT ![h].prev = n]
                 IN [w EXCEPT !.rr = [q EXCEPT !.free = free2, !.node = n3,
                                               !.count = @ + 1]]

(* round_robin_dequeue without "node->next->prev = node->prev".             *)
round_robin_dequeue_keep_prev(w, pid) ==
    LET q == w.rr IN
    IF pid < 0 \/ pid >= NPROC THEN w
    ELSE LET n == rr_find_node(q, pid) IN
    IF n = NULL THEN w
    ELSE IF q.node[n].next = n
    THEN [w EXCEPT !.rr = [q EXCEPT !.head = NULL, !.current = NULL,
                                    !.count = @ - 1,
                                    !.node[n] = RRFreeNode(q.free), !.free = n]]
    ELSE LET p == q.node[n].prev
             x == q.node[n].next
             n1 == [q.node EXCEPT ![p].next = x]
             n3 == [n1 EXCEPT ![n] = RRFreeNode(q.free)]
         IN [w EXCEPT !.rr = [q EXCEPT
                 !.node = n3, !.free = n, !.count = @ - 1,
                 !.head = IF n = q.head THEN x ELSE @,
                 !.current = IF n = q.current THEN x ELSE @]]

round_robin_dequeue(w, pid) ==
    LET q == w.rr IN
    IF pid < 0 \/ pid >= NPROC THEN w
    ELSE LET n == rr_find_node(q, pid) IN
    IF n = NULL THEN w
    ELSE IF q.node[n].next = n
    THEN [w EXCEPT !.rr = [q EXCEPT !.head = NULL, !.current = NULL,
                                    !.count = @ - 1,
                                    !.node[n] = RRFreeNode(q.free), !.free = n]]
    ELSE LET p == q.node[n].prev
             x == q.node[n].next
             n1 == [q.node EXCEPT ![p].next = x]
             n2 == [n1 EXCEPT ![x].prev = p]
             n3 == [n2 EXCEPT ![n] = RRFreeNode(q.free)]
         IN [w EXCEPT !.rr = [q EXCEPT
                 !.node = n3, !.free = n, !.count = @ - 1,
                 !.head = IF n = q.head THEN x ELSE @,
                 !.current = IF n = q.current THEN x ELSE @]]

round_robin_pick_next(w) ==
    IF w.rr.current = NULL THEN NULL ELSE w.rr.node[w.rr.current].pid

(* round_robin_rotate without "rr_current->time_remaining = rr_quantum".    *)
round_robin_rotate_keep_slice(w) ==
    LET q == w.rr IN
    IF q.current # NULL /\ q.count > 1
    THEN [w EXCEPT !.rr.current = q.node[q.current].next]
    ELSE w

round_robin_rotate(w) ==
    LET q == w.rr IN
    IF q.current # NULL /\ q.count > 1
    THEN LET x == q.node[q.current].next
         IN [w EXCEPT !.rr.current = x, !.rr.node[x].time_remaining = q.quantum]
    ELSE w

round_robin_schedule(w) ==
    LET next_pid == round_robin_pick_next(w)
        old_pid == w.k.currpid
    IN IF next_pid < 0 THEN w
       ELSE IF next_pid # old_pid
       THEN LET ps1 == IF w.k.pstate[old_pid] = "PR_CURR"
                       THEN [w.k.pstate EXCEPT ![old_pid] = "PR_READY"]
                       ELSE w.k.pstate
                ps2 == [ps1 EXCEPT ![next_pid] = "PR_CURR"]
            IN context_switch([w EXCEPT !.k.pstate = ps2, !.k.currpid = next_pid],
                              old_pid, next_pid)
       ELSE w

round_robin_yield(w) ==
    LET w1 == IF w.rr.current # NULL
              THEN [w EXCEPT !.rr.node[w.rr.current].time_remaining = 0]
              ELSE w
        w2 == IF w1.k.pstate[w1.k.currpid] = "PR_CURR"
              THEN [w1 EXCEPT !.k.pstate[w1.k.currpid] = "PR_READY"]
              ELSE w1
    IN round_robin_schedule(round_robin_rotate(w2))

round_robin_preempt(w) == round_robin_yield(w)

round_robin_set_quantum(w, quantum) ==
    LET q1 == IF quantum < RR_MIN_QUANTUM THEN RR_MIN_QUANTUM ELSE quantum
        q2 == IF q1 > RR_MAX_QUANTUM THEN RR_MAX_QUANTUM ELSE q1
    IN [w EXCEPT !.rr.quantum = q2]

round_robin_tick(w) ==
    LET q == w.rr
        c == q.current
    IN IF c # NULL /\ q.node[c].pid = w.k.currpid
       THEN LET tr == IF q.node[c].time_remaining > 0
                      THEN q.node[c].time_remaining - 1
                      ELSE q.node[c].time_remaining
                w1 == [w EXCEPT !.rr.node[c].time_remaining = tr]
            IN IF tr = 0
               THEN [round_robin_rotate(w1) EXCEPT !.k.need_resched = TRUE]
               ELSE w1
       ELSE w

(* round_robin_validate: the walk from the head with its checks.  The      *)
(* result is [ok, count]: ok is false as soon as a check fails.            *)
RECURSIVE RRValidateFrom(_, _, _)
RRValidateFrom(q, n, count) ==
    LET c == count + 1
        nd == q.node[n]
        pidOk == ~(nd.pid < 0 \/ nd.pid >= NPROC)
    IN IF nd.next = NULL \/ nd.prev = NULL THEN [ok |-> FALSE, count |-> c]
       ELSE LET linkOk == q.node[nd.next].prev = n
            IN IF c > NPROC THEN [ok |-> FALSE, count |-> c]
               ELSE IF nd.next = q.head
               THEN [ok |-> pidOk /\ linkOk, count |-> c]
               ELSE LET r == RRValidateFrom(q, nd.next, c)
                    IN [ok |-> pidOk /\ linkOk /\ r.ok, count |-> r.count]

round_robin_validate(q) ==
    IF q.head = NULL THEN q.count = 0
    ELSE LET r == RRValidateFrom(q, q.head, 0)
         IN r.ok /\ r.count = q.count

(* ---------------------------------------------------------------------- *)
(* Singly linked lists in a pool: the indices met by following next from   *)
(* h, at most fuel of them (a walk of a well-formed list of a pool of n    *)
(* nodes meets at most n).                                                 *)
(* ---------------------------------------------------------------------- *)
RECURSIVE Chain(_, _, _)
Chain(node, h, fuel) ==
    IF h = NULL \/ fuel = 0 THEN <<>>
    ELSE <<h>> \o Chain(node, node[h].next, fuel - 1)

(* Length of the longest prefix of s all of whose elements satisfy P: the  *)
(* number of iterations of "while (curr != NULL && P(curr)) curr = next".  *)
PrefixLen(s, P(_)) ==
    CHOOSE k \in 0..Len(s) :
        /\ \A i \in 1..k : P(s[i])
        /\ (k = Len(s) \/ ~P(s[k + 1]))

(* ---------------------------------------------------------------------- *)
(* priority.c                                                              *)
(* ---------------------------------------------------------------------- *)
PRIO_AGING_ENABLED == TRUE
PRIO_AGING_INTERVAL == 100
PRIO_AGING_AMOUNT == 1
PRIO_STARVATION_THRESHOLD == 1
PRIO_STARVATION_BOOST == 2

(* A node of prio_node_pool.  last_run, cpu_burst and io_bound are written *)
(* but never read; they are left out.  The fields of a free node other     *)
(* than next are dead (prio_node_alloc overwrites them).                   *)
PrioFreeNode(nxt) ==
    [pid |-> NULL, base_priority |-> 0, current_priority |-> 0, wait_time |-> 0,
     next |-> nxt]

prio_pool_init ==
    [i \in 0..(NPROC - 1) |-> PrioFreeNode(IF i < NPROC - 1 THEN i + 1 ELSE NULL)]

PrioStatic ==
    [queue |-> NULL, count |-> 0, free |-> NULL,
     node |-> [i \in 0..(NPROC - 1) |-> PrioFreeNode(NULL)],
     aging_enabled |-> PRIO_AGING_ENABLED, aging_interval |-> PRIO_AGING_INTERVAL,
     aging_counter |-> 0, ticks |-> 0]

priority_init(w) ==
    [w EXCEPT !.prio = [queue |-> NULL, count |-> 0, free |-> 0,
                        node |-> prio_pool_init,
                        aging_enabled |-> PRIO_AGING_ENABLED,
                        aging_interval |-> PRIO_AGING_INTERVAL,
                        aging_counter |-> 0, ticks |-> 0]]

priority_shutdown(w) == [w EXCEPT !.prio.queue = NULL, !.prio.count = 0]

PrioChain(q) == Chain(q.node, q.queue, NPROC + 1)

prio_find_node(q, pid) ==
    LET ch == PrioChain(q)
        k == PrefixLen(ch, LAMBDA n : q.node[n].pid # pid)
    IN IF k = Len(ch) THEN NULL ELSE ch[k + 1]

priority_insert_ordered(w, pid) ==
    LET q == w.prio IN
    IF q.free = NULL THEN w
    ELSE LET n == q.free
             free2 == q.node[n].next
             priority == w.k.pprio[pid]
             ch == PrioChain(q)
             k == PrefixLen(ch, LAMBDA c : q.node[c].current_priority >= priority)
             prev == IF k = 0 THEN NULL ELSE ch[k]
             curr == IF k = Len(ch) THEN NULL ELSE ch[k + 1]
             n1 == [q.node EXCEPT ![n] = [pid |-> pid, base_priority |-> priority,
                        current_priority |-> priority, wait_time |-> 0,
                        next |-> curr]]
             n2 == IF prev = NULL THEN n1 ELSE [n1 EXCEPT ![prev].next = n]
         IN [w EXCEPT !.prio = [q EXCEPT !.free = free2, !.node = n2,
                                         !.queue = IF prev = NULL THEN n ELSE @,
                                         !.count = @ + 1]]

priority_enqueue(w, pid) ==
    IF pid < 0 \/ pid >= NPROC THEN w
    ELSE IF prio_find_node(w.prio, pid) # NULL THEN w
    ELSE priority_insert_ordered(w, pid)

(* Unlink node n (found at position k + 1 of the list) and free it.        *)
PrioUnlinkFree(q, ch, k) ==
    LET n == ch[k + 1]
        n1 == IF k = 0 THEN q.node ELSE [q.node EXCEPT ![ch[k]].next = q.node[n].next]
        n2 == [n1 EXCEPT ![n] = PrioFreeNode(q.free)]
    IN [q EXCEPT !.node = n2, !.free = n, !.count = @ - 1,
                 !.queue = IF k = 0 THEN q.node[n].next ELSE @]

priority_dequeue(w, pid) ==
    IF pid < 0 \/ pid >= NPROC THEN w
    ELSE LET q == w.prio
             ch == PrioChain(q)
             k == PrefixLen(ch, LAMBDA n : q.node[n].pid # pid)
         IN IF k = Len(ch) THEN w
            ELSE [w EXCEPT !.prio = PrioUnlinkFree(q, ch, k)]

priority_pick_next(w) ==
    IF w.prio.queue = NULL THEN NULL ELSE w.prio.node[w.prio.queue].pid

priority_schedule(w) ==
    LET next_pid == priority_pick_next(w)
        old_pid == w.k.currpid
    IN IF next_pid < 0 THEN w
       ELSE IF next_pid # old_pid
       THEN LET ps1 == IF w.k.pstate[old_pid] = "PR_CURR"
                       THEN [w.k.pstate EXCEPT ![old_pid] = "PR_READY"]
                       ELSE w.k.pstate
                ps2 == [ps1 EXCEPT ![next_pid] = "PR_CURR"]
                next_node == prio_find_node(w.prio, next_pid)
                w1 == [w EXCEPT !.k.pstate = ps2, !.k.currpid = next_pid]
                w2 == IF next_node # NULL
                      THEN [w1 EXCEPT !.prio.node[next_node].wait_time = 0]
                      ELSE w1
            IN context_switch(priority_dequeue(w2, next_pid), old_pid, next_pid)
       ELSE w

priority_yield(w) ==
    LET c == w.k.currpid
        w1 == IF w.k.pstate[c] = "PR_CURR"
              THEN priority_enqueue([w EXCEPT !.k.pstate[c] = "PR_READY"], c)
              ELSE w
    IN priority_schedule(w1)

priority_preempt(w) == priority_yield(w)

(* priority_set that leaves a queued node where it is when its priority   *)
(* already has the requested value.                                        *)
priority_set_skip_same(w, pid, priority) ==
    IF pid < 0 \/ pid >= NPROC THEN w
    ELSE LET p == IF priority > PRIORITY_MAX THEN PRIORITY_MAX ELSE priority
             w1 == [w EXCEPT !.k.pprio[pid] = p]
             q == w1.prio
             ch == PrioChain(q)
             k == PrefixLen(ch, LAMBDA n : q.node[n].pid # pid)
             w2 == IF k = Len(ch) \/ q.node[ch[k + 1]].current_priority = p THEN w1
                   ELSE priority_insert_ordered(
                            [w1 EXCEPT !.prio = PrioUnlinkFree(q, ch, k)], pid)
         IN IF w2.k.pstate[pid] = "PR_READY" \/ pid = w2.k.currpid
            THEN [w2 EXCEPT !.k.need_resched = TRUE]
            ELSE w2

priority_set(w, pid, priority) ==
    IF pid < 0 \/ pid >= NPROC THEN w
    ELSE LET p == IF priority > PRIORITY_MAX THEN PRIORITY_MAX ELSE priority
             w1 == [w EXCEPT !.k.pprio[pid] = p]
             q == w1.prio
             ch == PrioChain(q)
             k == PrefixLen(ch, LAMBDA n : q.node[n].pid # pid)
             w2 == IF k = Len(ch) THEN w1
                   ELSE priority_insert_ordered(
                            [w1 EXCEPT !.prio = PrioUnlinkFree(q, ch, k)], pid)
         IN IF w2.k.pstate[pid] = "PR_READY" \/ pid = w2.k.currpid
            THEN [w2 EXCEPT !.k.need_resched = TRUE]
            ELSE w2

priority_get(w, pid) ==
    IF pid < 0 \/ pid >= NPROC THEN 0
    ELSE LET n == prio_find_node(w.prio, pid)
         IN IF n # NULL THEN w.prio.node[n].current_priority ELSE w.k.pprio[pid]

(* priority_boost that does not stop a queued node at PRIORITY_MAX.        *)
priority_boost_unsaturated(w, pid) ==
    IF pid < 0 \/ pid >= NPROC THEN w
    ELSE LET n == prio_find_node(w.prio, pid)
         IN IF n # NULL
            THEN [w EXCEPT !.prio.node[n].current_priority = @ + 1]
            ELSE IF w.k.pprio[pid] < PRIORITY_MAX
                 THEN [w EXCEPT !.k.pprio[pid] = @ + 1]
                 ELSE w

priority_boost(w, pid) ==
    IF pid < 0 \/ pid >= NPROC THEN w
    ELSE LET n == prio_find_node(w.prio, pid)
         IN IF n # NULL
            THEN IF w.prio.node[n].current_priority < PRIORITY_MAX
                 THEN [w EXCEPT !.prio.node[n].current_priority = @ + 1]
                 ELSE w
            ELSE IF w.k.pprio[pid] < PRIORITY_MAX
                 THEN [w EXCEPT !.k.pprio[pid] = @ + 1]
                 ELSE w

priority_decay(w, pid) ==
    IF pid < 0 \/ pid >= NPROC THEN w
    ELSE LET n == prio_find_node(w.prio, pid)
         IN IF n # NULL /\ w.prio.node[n].current_priority > w.prio.node[n].base_priority
            THEN [w EXCEPT !.prio.node[n].current_priority = @ - 1]
            ELSE w

priority_reset(w, pid) ==
    IF pid < 0 \/ pid >= NPROC THEN w
    ELSE LET n == prio_find_node(w.prio, pid)
         IN IF n # NULL
            THEN [w EXCEPT !.prio.node[n].current_priority = w.prio.node[n].base_priority]
            ELSE w

PrioQueued(q) == {PrioChain(q)[i] : i \in 1..Len(PrioChain(q))}

priority_age_all(w) ==
    IF ~w.prio.aging_enabled THEN w
    ELSE LET q == w.prio
             S == PrioQueued(q)
         IN [w EXCEPT !.prio.node = [i \in DOMAIN q.node |->
                IF i \in S /\ q.node[i].current_priority < PRIORITY_MAX
                THEN [q.node[i] EXCEPT !.current_priority =
                         Min(@ + PRIO_AGING_AMOUNT, PRIORITY_MAX)]
                ELSE q.node[i]]]

priority_check_starvation(w) ==
    LET q == w.prio
        S == PrioQueued(q)
    IN [w EXCEPT !.prio.node = [i \in DOMAIN q.node |->
           IF i \in S /\ q.node[i].wait_time > PRIO_STARVATION_THRESHOLD
           THEN [q.node[i] EXCEPT !.current_priority =
                    Min(@ + PRIO_STARVATION_BOOST, PRIORITY_MAX),
                                  !.wait_time = 0]
           ELSE q.node[i]]]

priority_aging_enable(w, enable) == [w EXCEPT !.prio.aging_enabled = enable]

priority_set_aging_interval(w, ticks) == [w EXCEPT !.prio.aging_interval = ticks]

priority_tick(w) ==
    LET q == w.prio
        S == PrioQueued(q)
        w1 == [w EXCEPT !.prio.ticks = @ + 1,
                        !.prio.node = [i \in DOMAIN q.node |->
                            IF i \in S THEN [q.node[i] EXCEPT !.wait_time = @ + 1]
                            ELSE q.node[i]]]
        w2 == IF w1.prio.aging_enabled
              THEN IF w1.prio.aging_counter + 1 >= w1.prio.aging_interval
                   THEN [priority_age_all(w1) EXCEPT !.prio.aging_counter = 0]
                   ELSE [w1 EXCEPT !.prio.aging_counter = @ + 1]
              ELSE w1
        w3 == priority_check_starvation(w2)
    IN IF w3.prio.queue # NULL /\ w3.k.currpid >= 0
          /\ w3.k.pprio[w3.prio.node[w3.prio.queue].pid] > w3.k.pprio[w3.k.currpid]
       THEN [w3 EXCEPT !.k.need_resched = TRUE]
       ELSE w3

(* priority_validate: count and descending order of current_priority.      *)
PrioSorted(q) ==
    LET ch == PrioChain(q)
    IN \A i \in 1..(Len(ch) - 1) :
          q.node[ch[i + 1]].current_priority <= q.node[ch[i]].current_priority

priority_validate(q) ==
    LET ch == PrioChain(q)
    IN /\ \A i \in 1..Len(ch) : ~(q.node[ch[i]].pid < 0 \/ q.node[ch[i]].pid >= NPROC)
       /\ PrioSorted(q)
       /\ Len(ch) <= NPROC
       /\ Len(ch) = q.count

(* ---------------------------------------------------------------------- *)
(* lottery.c                                                               *)
(* ---------------------------------------------------------------------- *)
LOTTERY_DEFAULT_TICKETS == 100
LOTTERY_MIN_TICKETS == 1
LOTTERY_MAX_TICKETS == 10000
LOTTERY_COMPENSATION_ENABLED == TRUE

(* Size of entry_pool (LOTTERY_MAX_ENTRIES in the source), scaled down.    *)
LotPoolSize == 3
(* Caps: lotteries drawn since lottery_init, and the excess of the cached   *)
(* total over the tickets held at which lottery_compensate is still called. *)
MaxLotteries == 2
MaxDrift == 0
(* lottery_tick is explored over the first MaxLotTicks ticks of a quantum   *)
(* and at its end.                                                         *)
MaxLotTicks == 1

(* An entry of entry_pool.  total_tickets_held only accumulates and is     *)
(* never read; it is left out.  The fields of a free entry other than next *)
(* are dead (alloc_entry clears the entry).                                *)
LotFreeEntry(nxt) ==
    [pid |-> NULL, base_tickets |-> 0, current_tickets |-> 0, compensation |-> 0,
     wins |-> 0, next |-> nxt]

LotStatic ==
    [pool |-> NULL, total_tickets |-> 0, participant_count |-> 0,
     compensation_enabled |-> LOTTERY_COMPENSATION_ENABLED,
     current_pid |-> NULL, time_remaining |-> 0,
     random_state |-> [hi |-> 0, lo |-> 1], total_lotteries |-> 0,
     free |-> NULL, entry |-> [i \in 0..(LotPoolSize - 1) |-> LotFreeEntry(NULL)]]

lottery_init(w) ==
    [w EXCEPT !.lot =
        [pool |-> NULL, total_tickets |-> 0, participant_count |-> 0,
         compensation_enabled |-> LOTTERY_COMPENSATION_ENABLED,
         current_pid |-> NULL, time_remaining |-> 0,
         random_state |-> [hi |-> 0, lo |-> 1], total_lotteries |-> 0,
         free |-> 0,
         entry |-> [i \in 0..(LotPoolSize - 1) |->
                       LotFreeEntry(IF i < LotPoolSize - 1 THEN i + 1 ELSE NULL)]]]

LotChain(q) == Chain(q.entry, q.pool, LotPoolSize + 1)

(* lottery_shutdown: every entry of the pool goes to the free list, in     *)
(* list order.                                                             *)
RECURSIVE LotFreeAll(_, _, _)
LotFreeAll(entry, free, ch) ==
    IF ch = <<>> THEN [entry |-> entry, free |-> free]
    ELSE LotFreeAll([entry EXCEPT ![Head(ch)] = LotFreeEntry(free)], Head(ch), Tail(ch))

lottery_shutdown(w) ==
    LET r == LotFreeAll(w.lot.entry, w.lot.free, LotChain(w.lot))
    IN [w EXCEPT !.lot.entry = r.entry, !.lot.free = r.free, !.lot.pool = NULL,
                 !.lot.total_tickets = 0, !.lot.participant_count = 0,
                 !.lot.current_pid = NULL]

(* random_next: random_state = random_state * 1103515245 + 12345 (mod      *)
(* 2^32), returning bits 30..16.  The state is kept as two 16-bit halves   *)
(* so that no intermediate product exceeds 31 bits.                        *)
LcgNext(s) ==
    LET t == s.lo * 20077 + 12345
        lo2 == t % 65536
        hi2 == ((t \div 65536) + ((s.hi * 20077) % 65536) + ((s.lo * 16838) % 65536)) % 65536
    IN [hi |-> hi2, lo |-> lo2]

random_next(w) ==
    LET s2 == LcgNext(w.lot.random_state)
    IN [w |-> [w EXCEPT !.lot.random_state = s2], r |-> s2.hi % 32768]

random_range(w, max) ==
    IF max = 0 THEN [w |-> w, r |-> 0]
    ELSE LET x == random_next(w) IN [w |-> x.w, r |-> x.r % max]

find_entry(q, pid) ==
    LET ch == LotChain(q)
        k == PrefixLen(ch, LAMBDA e : q.entry[e].pid # pid)
    IN IF k = Len(ch) THEN NULL ELSE ch[k + 1]

RECURSIVE LotSumTickets(_, _)
LotSumTickets(entry, ch) ==
    IF ch = <<>> THEN 0
    ELSE entry[Head(ch)].current_tickets + LotSumTickets(entry, Tail(ch))

recalculate_totals(w) ==
    LET ch == LotChain(w.lot)
    IN [w EXCEPT !.lot.total_tickets = LotSumTickets(w.lot.entry, ch),
                 !.lot.participant_count = Len(ch)]

(* The entry at which the accumulated count first exceeds winning_ticket,  *)
(* or NULL when the walk reaches the end of the pool.                      *)
RECURSIVE LotWalk(_, _, _, _)
LotWalk(entry, ch, counter, winning_ticket) ==
    IF ch = <<>> THEN NULL
    ELSE LET c == counter + entry[Head(ch)].current_tickets
         IN IF c > winning_ticket THEN Head(ch)
            ELSE LotWalk(entry, Tail(ch), c, winning_ticket)

lottery_draw(w) ==
    IF w.lot.pool = NULL \/ w.lot.total_tickets = 0 THEN [w |-> w, r |-> NULL]
    ELSE LET x == random_range(w, w.lot.total_tickets)
             e == LotWalk(x.w.lot.entry, LotChain(x.w.lot), 0, x.r)
             win == IF e # NULL THEN e ELSE x.w.lot.pool
         IN [w |-> [x.w EXCEPT !.lot.entry[win].wins = @ + 1,
                               !.lot.total_lotteries = @ + 1],
             r |-> x.w.lot.entry[win].pid]

(* lottery_schedule without the early return for a current task that      *)
(* still has time remaining.                                               *)
lottery_schedule_always_draw(w) ==
    LET d == lottery_draw(w)
        winner == d.r
    IN IF winner < 0 THEN d.w
       ELSE IF winner # d.w.lot.current_pid
       THEN context_switch([d.w EXCEPT !.lot.current_pid = winner,
                                       !.lot.time_remaining = DEFAULT_QUANTUM],
                           d.w.lot.current_pid, winner)
       ELSE [d.w EXCEPT !.lot.time_remaining = DEFAULT_QUANTUM]

lottery_schedule(w) ==
    IF w.lot.current_pid >= 0 /\ w.lot.time_remaining > 0
       /\ find_entry(w.lot, w.lot.current_pid) # NULL
    THEN w
    ELSE LET d == lottery_draw(w)
             winner == d.r
         IN IF winner < 0 THEN d.w
            ELSE IF winner # d.w.lot.current_pid
            THEN context_switch([d.w EXCEPT !.lot.current_pid = winner,
                                            !.lot.time_remaining = DEFAULT_QUANTUM],
                                d.w.lot.current_pid, winner)
            ELSE [d.w EXCEPT !.lot.time_remaining = DEFAULT_QUANTUM]

(* fraction_used is the rational num/den.  The compensation is            *)
(* (uint32_t)(base * (1/fraction - 1)) in single precision: the exact     *)
(* quotient base * (den - num) / num truncated, or one less when the      *)
(* quotient is an integer and the rounded factor lies below it (round = 1).*)
CompTickets(base, num, den, round) ==
    LET x == base * (den - num)
        c == x \div num
    IN IF x % num = 0 /\ round = 1 /\ c > 0 THEN c - 1 ELSE c

lottery_compensate(w, pid, num, den, round) ==
    IF ~w.lot.compensation_enabled THEN w
    ELSE LET e == find_entry(w.lot, pid) IN
    IF e = NULL THEN w
    ELSE LET en == w.lot.entry[e] IN
    IF num <= 0 \/ num >= den
    THEN [w EXCEPT !.lot.total_tickets = (@ - en.compensation) + en.base_tickets,
                   !.lot.entry[e].compensation = 0,
                   !.lot.entry[e].current_tickets = en.base_tickets]
    ELSE LET comp == CompTickets(en.base_tickets, num, den, round)
         IN [w EXCEPT !.lot.total_tickets = (@ - en.compensation) + en.base_tickets + comp,
                      !.lot.entry[e].compensation = comp,
                      !.lot.entry[e].current_tickets = en.base_tickets + comp]

(* lottery_yield: fraction = 1 - time_remaining / DEFAULT_QUANTUM.         *)
lottery_yield(w, round) ==
    LET w1 == IF w.lot.current_pid >= 0 /\ w.lot.compensation_enabled
              THEN lottery_compensate(w, w.lot.current_pid,
                       DEFAULT_QUANTUM - w.lot.time_remaining, DEFAULT_QUANTUM, round)
              ELSE w
    IN lottery_schedule([w1 EXCEPT !.lot.time_remaining = 0])

lottery_preempt(w) == lottery_schedule([w EXCEPT !.lot.time_remaining = 0])

lottery_enqueue(w, pid) ==
    LET q == w.lot IN
    IF find_entry(q, pid) # NULL THEN w
    ELSE IF q.free = NULL THEN w
    ELSE LET e == q.free
         IN [w EXCEPT !.lot = [q EXCEPT
                !.free = q.entry[e].next,
                !.entry[e] = [pid |-> pid, base_tickets |-> LOTTERY_DEFAULT_TICKETS,
                              current_tickets |-> LOTTERY_DEFAULT_TICKETS,
                              compensation |-> 0, wins |-> 0, next |-> q.pool],
                !.pool = e,
                !.total_tickets = @ + LOTTERY_DEFAULT_TICKETS,
                !.participant_count = @ + 1]]

(* lottery_dequeue that ends the running slice whenever the pid is not in *)
(* the pool.                                                               *)
lottery_dequeue_drop_slice(w, pid) ==
    LET q == w.lot
        ch == LotChain(q)
        k == PrefixLen(ch, LAMBDA e : q.entry[e].pid # pid)
    IN IF k = Len(ch) THEN [w EXCEPT !.lot.time_remaining = 0]
       ELSE LET e == ch[k + 1]
                e1 == IF k = 0 THEN q.entry
                      ELSE [q.entry EXCEPT ![ch[k]].next = q.entry[e].next]
                e2 == [e1 EXCEPT ![e] = LotFreeEntry(q.free)]
            IN [w EXCEPT !.lot = [q EXCEPT
                   !.entry = e2, !.free = e,
                   !.pool = IF k = 0 THEN q.entry[e].next ELSE @,
                   !.total_tickets = @ - q.entry[e].current_tickets,
                   !.participant_count = @ - 1,
                   !.current_pid = IF q.current_pid = pid THEN NULL ELSE @,
                   !.time_remaining = IF q.current_pid = pid THEN 0 ELSE @]]

lottery_dequeue(w, pid) ==
    LET q == w.lot
        ch == LotChain(q)
        k == PrefixLen(ch, LAMBDA e : q.entry[e].pid # pid)
    IN IF k = Len(ch) THEN w
       ELSE LET e == ch[k + 1]
                e1 == IF k = 0 THEN q.entry
                      ELSE [q.entry EXCEPT ![ch[k]].next = q.entry[e].next]
                e2 == [e1 EXCEPT ![e] = LotFreeEntry(q.free)]
            IN [w EXCEPT !.lot = [q EXCEPT
                   !.entry = e2, !.free = e,
                   !.pool = IF k = 0 THEN q.entry[e].next ELSE @,
                   !.total_tickets = @ - q.entry[e].current_tickets,
                   !.participant_count = @ - 1,
                   !.current_pid = IF q.current_pid = pid THEN NULL ELSE @,
                   !.time_remaining = IF q.current_pid = pid THEN 0 ELSE @]]

lottery_set_tickets(w, pid, tickets) ==
    LET e == find_entry(w.lot, pid) IN
    IF e = NULL THEN w
    ELSE LET t1 == IF tickets < LOTTERY_MIN_TICKETS THEN LOTTERY_MIN_TICKETS ELSE tickets
             t2 == IF t1 > LOTTERY_MAX_TICKETS THEN LOTTERY_MAX_TICKETS ELSE t1
             en == w.lot.entry[e]
         IN [w EXCEPT !.lot.total_tickets = (@ - en.current_tickets) + t2 + en.compensation,
                      !.lot.entry[e].base_tickets = t2,
                      !.lot.entry[e].current_tickets = t2 + en.compensation]

lottery_add_tickets(w, pid, tickets) ==
    LET e == find_entry(w.lot, pid) IN
    IF e = NULL THEN w
    ELSE lottery_set_tickets(w, pid,
             Min(w.lot.entry[e].base_tickets + tickets, LOTTERY_MAX_TICKETS))

lottery_remove_tickets(w, pid, tickets) ==
    LET e == find_entry(w.lot, pid) IN
    IF e = NULL THEN w
    ELSE lottery_set_tickets(w, pid,
             IF tickets >= w.lot.entry[e].base_tickets THEN LOTTERY_MIN_TICKETS
             ELSE w.lot.entry[e].base_tickets - tickets)

(* Returns [w, r]: the world and the number of tickets moved.              *)
(* lottery_transfer_tickets without the clamp to the receiver's space.      *)
lottery_transfer_tickets_no_space(w, from_pid, to_pid, tickets) ==
    LET from == find_entry(w.lot, from_pid)
        to == find_entry(w.lot, to_pid)
    IN IF from = NULL \/ to = NULL THEN [w |-> w, r |-> 0]
       ELSE LET available == w.lot.entry[from].base_tickets - LOTTERY_MIN_TICKETS
                t1 == IF tickets < available THEN tickets ELSE available
            IN IF t1 = 0 THEN [w |-> w, r |-> 0]
               ELSE LET w1 == lottery_set_tickets(w, from_pid,
                                  w.lot.entry[from].base_tickets - t1)
                        w2 == lottery_set_tickets(w1, to_pid,
                                  w1.lot.entry[to].base_tickets + t1)
                    IN [w |-> w2, r |-> t1]

lottery_transfer_tickets(w, from_pid, to_pid, tickets) ==
    LET from == find_entry(w.lot, from_pid)
        to == find_entry(w.lot, to_pid)
    IN IF from = NULL \/ to = NULL THEN [w |-> w, r |-> 0]
       ELSE LET available == w.lot.entry[from].base_tickets - LOTTERY_MIN_TICKETS
                t1 == IF tickets < available THEN tickets ELSE available
            IN IF t1 = 0 THEN [w |-> w, r |-> 0]
               ELSE LET space == LOTTERY_MAX_TICKETS - w.lot.entry[to].base_tickets
                        t2 == IF t1 > space THEN space ELSE t1
                        w1 == lottery_set_tickets(w, from_pid,
                                  w.lot.entry[from].base_tickets - t2)
                        w2 == lottery_set_tickets(w1, to_pid,
                                  w1.lot.entry[to].base_tickets + t2)
                    IN [w |-> w2, r |-> t2]

lottery_compensation_enable(w, enable) ==
    LET q == w.lot
        ch == LotChain(q)
        S == {ch[i] : i \in 1..Len(ch)}
        w1 == [w EXCEPT !.lot.compensation_enabled = enable]
    IN IF enable THEN w1
       ELSE [w1 EXCEPT
               !.lot.total_tickets = @ - LotSumTickets(
                   [i \in DOMAIN q.entry |->
                       [current_tickets |-> q.entry[i].compensation]], ch),
               !.lot.entry = [i \in DOMAIN q.entry |->
                   IF i \in S
                   THEN [q.entry[i] EXCEPT !.compensation = 0,
                                           !.current_tickets = q.entry[i].base_tickets]
                   ELSE q.entry[i]]]

(* lottery_inflate(factor) with factor = num/den, a power of two, for      *)
(* which the single-precision product is exact.                            *)
lottery_inflate(w, num, den) ==
    IF num <= 0 THEN w
    ELSE LET q == w.lot
             ch == LotChain(q)
             S == {ch[i] : i \in 1..Len(ch)}
             nb(b) == LET x == (b * num) \div den
                          y == IF x < LOTTERY_MIN_TICKETS THEN LOTTERY_MIN_TICKETS ELSE x
                      IN IF y > LOTTERY_MAX_TICKETS THEN LOTTERY_MAX_TICKETS ELSE y
         IN recalculate_totals([w EXCEPT !.lot.entry = [i \in DOMAIN q.entry |->
                IF i \in S
                THEN [q.entry[i] EXCEPT
                        !.base_tickets = nb(q.entry[i].base_tickets),
                        !.current_tickets = nb(q.entry[i].base_tickets)
                                            + q.entry[i].compensation]
                ELSE q.entry[i]]])

lottery_tick(w) ==
    LET w1 == IF w.lot.time_remaining > 0
              THEN [w EXCEPT !.lot.time_remaining = @ - 1]
              ELSE w
    IN IF w1.lot.time_remaining = 0 THEN lottery_schedule(w1) ELSE w1

(* lottery_validate                                                        *)
lottery_validate(q) ==
    LET ch == LotChain(q)
    IN /\ \A i \in 1..Len(ch) :
            LET en == q.entry[ch[i]]
            IN /\ ~(en.base_tickets < LOTTERY_MIN_TICKETS
                      \/ en.base_tickets > LOTTERY_MAX_TICKETS)
               /\ en.current_tickets = en.base_tickets + en.compensation
       /\ LotSumTickets(q.entry, ch) = q.total_tickets
       /\ Len(ch) = q.participant_count

(* ---------------------------------------------------------------------- *)
(* cfs.c                                                                   *)
(* ---------------------------------------------------------------------- *)
CFS_TARGET_LATENCY == 20
CFS_MIN_GRANULARITY == 4
CFS_NICE_DEFAULT == 0
CFS_NICE_MIN == 0 - 20
CFS_NICE_MAX == 19
CFS_NICE_LEVELS == 40
CFS_WEIGHT_NICE0 == 1024

(* Size of task_pool (CFS_MAX_TASKS in the source), scaled down, and the   *)
(* cap on system_clock.                                                    *)
CfsPoolSize == 3
MaxClock == 2
(* cfs_enqueue is explored while min_vruntime is below MaxMinVruntime.      *)
MaxMinVruntime == 11

cfs_weight_table ==
    <<88761, 71755, 56483, 46273, 36291,
      29154, 23254, 18705, 14949, 11916,
      9548,  7620,  6100,  4904,  3906,
      3121,  2501,  1991,  1586,  1277,
      1024,  820,   655,   526,   423,
      335,   272,   215,   172,   137,
      110,   87,    70,    56,    45,
      36,    29,    23,    18,    15>>

max64(a, b) == IF a > b THEN a ELSE b

(* A task of task_pool as alloc_task leaves it, linked to nxt.  The rb-tree *)
(* fields are never used by the source and are left out.                   *)
CfsZeroTask(nxt) ==
    [pid |-> 0, nice |-> 0, weight |-> 0, vruntime |-> 0, exec_start |-> 0,
     sum_exec |-> 0, prev_sum_exec |-> 0, sleep_start |-> 0, on_rq |-> FALSE,
     next |-> nxt, prev |-> NULL]

CfsZeroRq(q) ==
    [q EXCEPT !.nr_running = 0, !.min_vruntime = 0, !.clock = 0, !.clock_task = 0,
              !.load_weight = 0, !.tasks_timeline = NULL, !.curr = NULL,
              !.leftmost = NULL]

CfsStatic ==
    [nr_running |-> 0, min_vruntime |-> 0, clock |-> 0, clock_task |-> 0,
     load_weight |-> 0, tasks_timeline |-> NULL, curr |-> NULL, leftmost |-> NULL,
     system_clock |-> 0, free |-> NULL,
     task |-> [i \in 0..(CfsPoolSize - 1) |-> CfsZeroTask(NULL)]]

CfsChain(q) == Chain(q.task, q.tasks_timeline, CfsPoolSize + 1)
CfsFreeChain(q) == Chain(q.task, q.free, CfsPoolSize + 1)

find_task(q, pid) ==
    LET ch == CfsChain(q)
        k == PrefixLen(ch, LAMBDA e : q.task[e].pid # pid)
    IN IF k = Len(ch) THEN NULL ELSE ch[k + 1]

(* insert_task without the search for the insertion point: the task goes   *)
(* to the head of the timeline.                                            *)
insert_task_at_head(q, t) ==
    LET q1 == [q EXCEPT !.task[t].on_rq = TRUE] IN
    IF q1.tasks_timeline = NULL
    THEN [q1 EXCEPT !.task[t].prev = NULL, !.task[t].next = NULL,
                    !.tasks_timeline = t, !.leftmost = t]
    ELSE [q1 EXCEPT !.task[t].prev = NULL, !.task[t].next = q1.tasks_timeline,
                    !.task[q1.tasks_timeline].prev = t,
                    !.tasks_timeline = t, !.leftmost = t]

insert_task(q, t) ==
    LET q1 == [q EXCEPT !.task[t].on_rq = TRUE] IN
    IF q1.tasks_timeline = NULL
    THEN [q1 EXCEPT !.task[t].prev = NULL, !.task[t].next = NULL,
                    !.tasks_timeline = t, !.leftmost = t]
    ELSE LET ch == CfsChain(q1)
             k == PrefixLen(ch, LAMBDA e : q1.task[e].vruntime <= q1.task[t].vruntime)
         IN IF k = 0
            THEN [q1 EXCEPT !.task[t].prev = NULL, !.task[t].next = q1.tasks_timeline,
                            !.task[q1.tasks_timeline].prev = t,
                            !.tasks_timeline = t, !.leftmost = t]
            ELSE LET prev == ch[k]
                     nx == q1.task[prev].next
                     t1 == [q1.task EXCEPT ![t].prev = prev, ![t].next = nx]
                     t2 == IF nx # NULL THEN [t1 EXCEPT ![nx].prev = t] ELSE t1
                 IN [q1 EXCEPT !.task = [t2 EXCEPT ![prev].next = t]]

remove_task(q, t) ==
    IF ~q.task[t].on_rq THEN q
    ELSE LET nx == q.task[t].next
             pv == q.task[t].prev
             t1 == [q.task EXCEPT ![t].on_rq = FALSE]
             t2 == IF pv # NULL THEN [t1 EXCEPT ![pv].next = nx] ELSE t1
             t3 == IF nx # NULL THEN [t2 EXCEPT ![nx].prev = pv] ELSE t2
         IN [q EXCEPT !.tasks_timeline = IF @ = t THEN nx ELSE @,
                      !.leftmost = IF @ = t THEN nx ELSE @,
                      !.task = [t3 EXCEPT ![t].prev = NULL, ![t].next = NULL]]

cfs_init(w) ==
    [w EXCEPT !.cfs =
        [nr_running |-> 0, min_vruntime |-> 0, clock |-> 0, clock_task |-> 0,
         load_weight |-> 0, tasks_timeline |-> NULL, curr |-> NULL, leftmost |-> NULL,
         system_clock |-> 0, free |-> 0,
         task |-> [i \in 0..(CfsPoolSize - 1) |->
                     CfsZeroTask(IF i < CfsPoolSize - 1 THEN i + 1 ELSE NULL)]]]

RECURSIVE CfsFreeAll(_, _, _)
CfsFreeAll(task, free, ch) ==
    IF ch = <<>> THEN [task |-> task, free |-> free]
    ELSE CfsFreeAll([task EXCEPT ![Head(ch)].next = free], Head(ch), Tail(ch))

cfs_shutdown(w) ==
    LET r == CfsFreeAll(w.cfs.task, w.cfs.free, CfsChain(w.cfs))
    IN [w EXCEPT !.cfs = CfsZeroRq([w.cfs EXCEPT !.task = r.task, !.free = r.free])]

cfs_nice_to_weight(nice) ==
    LET i0 == nice + 20
        i1 == IF i0 < 0 THEN 0 ELSE i0
        i2 == IF i1 >= CFS_NICE_LEVELS THEN CFS_NICE_LEVELS - 1 ELSE i1
    IN cfs_weight_table[i2 + 1]

cfs_set_nice(w, pid, nice) ==
    LET q == w.cfs
        t == find_task(q, pid)
    IN IF t = NULL THEN w
       ELSE LET n1 == IF nice < CFS_NICE_MIN THEN CFS_NICE_MIN ELSE nice
                n2 == IF n1 > CFS_NICE_MAX THEN CFS_NICE_MAX ELSE n1
                old_weight == q.task[t].weight
                q1 == [q EXCEPT !.task[t].nice = n2,
                                !.task[t].weight = cfs_nice_to_weight(n2),
                                !.load_weight = (@ - old_weight) + cfs_nice_to_weight(n2)]
            IN [w EXCEPT !.cfs = IF q1.task[t].on_rq /\ t # q1.curr
                                 THEN insert_task(remove_task(q1, t), t)
                                 ELSE q1]

cfs_calc_delta(delta_exec, weight) ==
    IF weight = 0 THEN delta_exec
    ELSE (delta_exec * CFS_WEIGHT_NICE0) \div weight

cfs_update_vruntime(q, t, delta_exec) ==
    IF t = NULL THEN q
    ELSE [q EXCEPT !.task[t].vruntime = @ + cfs_calc_delta(delta_exec, q.task[t].weight),
                   !.task[t].sum_exec = @ + delta_exec]

(* cfs_update_min_vruntime that starts again from 0 when no task is left.   *)
cfs_update_min_vruntime_restart(q) ==
    IF q.curr = NULL /\ q.leftmost = NULL THEN [q EXCEPT !.min_vruntime = 0]
    ELSE LET v0 == IF q.curr # NULL THEN q.task[q.curr].vruntime ELSE q.min_vruntime
             v1 == IF q.leftmost # NULL
                   THEN IF q.curr = NULL THEN q.task[q.leftmost].vruntime
                        ELSE IF q.task[q.leftmost].vruntime < v0
                             THEN q.task[q.leftmost].vruntime ELSE v0
                   ELSE v0
         IN [q EXCEPT !.min_vruntime = max64(q.min_vruntime, v1)]

cfs_update_min_vruntime(q) ==
    LET v0 == IF q.curr # NULL THEN q.task[q.curr].vruntime ELSE q.min_vruntime
        v1 == IF q.leftmost # NULL
              THEN IF q.curr = NULL THEN q.task[q.leftmost].vruntime
                   ELSE IF q.task[q.leftmost].vruntime < v0
                        THEN q.task[q.leftmost].vruntime ELSE v0
              ELSE v0
    IN [q EXCEPT !.min_vruntime = max64(q.min_vruntime, v1)]

cfs_sched_latency(q) ==
    IF q.nr_running > 8 THEN CFS_MIN_GRANULARITY * q.nr_running
    ELSE CFS_TARGET_LATENCY

cfs_place_task(q, t, initial) ==
    LET vruntime == IF initial
                    THEN q.min_vruntime
                         + cfs_calc_delta(cfs_sched_latency(q) \div 2, q.task[t].weight)
                    ELSE q.min_vruntime
    IN [q EXCEPT !.task[t].vruntime = max64(@, vruntime)]

cfs_timeslice(q, t) ==
    IF q.nr_running = 0 \/ t = NULL THEN CFS_TARGET_LATENCY
    ELSE LET slice == (cfs_sched_latency(q) * q.task[t].weight) \div q.load_weight
         IN IF slice < CFS_MIN_GRANULARITY THEN CFS_MIN_GRANULARITY ELSE slice

update_current(q) ==
    IF q.curr = NULL THEN q
    ELSE LET now == q.clock_task
             delta_exec == now - q.task[q.curr].exec_start
         IN IF delta_exec = 0 THEN q
            ELSE cfs_update_min_vruntime(
                     [cfs_update_vruntime(q, q.curr, delta_exec)
                         EXCEPT !.task[q.curr].exec_start = now])

cfs_pick_next_task(q) == q.leftmost

cfs_check_preempt(q) ==
    IF q.curr = NULL \/ q.leftmost = NULL
    THEN q.curr = NULL /\ q.leftmost # NULL
    ELSE q.task[q.leftmost].vruntime
           + cfs_calc_delta(CFS_MIN_GRANULARITY, q.task[q.curr].weight)
         < q.task[q.curr].vruntime

cfs_put_prev_task(q) ==
    LET prev == q.curr IN
    IF prev = NULL THEN q
    ELSE Bind(update_current(q),
              LAMBDA q1 : [IF q1.task[prev].on_rq
                           THEN insert_task(remove_task(q1, prev), prev)
                           ELSE q1 EXCEPT !.curr = NULL])

cfs_set_curr_task(q, t) ==
    [q EXCEPT !.task[t].exec_start = q.clock_task, !.curr = t]

(* old_pid is read from cfs_rq.curr after cfs_set_curr_task has stored     *)
(* next there.                                                             *)
cfs_schedule(w) ==
    Bind(cfs_put_prev_task(
             Bind([w.cfs EXCEPT !.clock = w.cfs.system_clock,
                                !.clock_task = w.cfs.system_clock],
                  LAMBDA q0 : IF q0.curr # NULL THEN update_current(q0) ELSE q0)),
         LAMBDA q2 :
            LET next == cfs_pick_next_task(q2) IN
            IF next = NULL THEN [w EXCEPT !.cfs = q2]
            ELSE Bind(cfs_set_curr_task(remove_task(q2, next), next),
                      LAMBDA q3 :
                         LET old_pid == IF q3.curr # NULL THEN q3.task[q3.curr].pid
                                        ELSE NULL
                         IN IF old_pid # q3.task[next].pid
                            THEN context_switch([w EXCEPT !.cfs = q3], old_pid,
                                                q3.task[next].pid)
                            ELSE [w EXCEPT !.cfs = q3]))

cfs_yield(w) ==
    LET curr == w.cfs.curr IN
    IF curr = NULL THEN w
    ELSE Bind(update_current(w.cfs),
              LAMBDA q1 :
                 cfs_schedule([w EXCEPT !.cfs =
                     IF q1.leftmost # NULL
                     THEN [q1 EXCEPT !.task[curr].vruntime =
                              max64(@, q1.task[q1.leftmost].vruntime)]
                     ELSE q1]))

cfs_preempt(w) == cfs_schedule(w)

cfs_enqueue(w, pid) ==
    LET q == w.cfs
        found == find_task(q, pid)
        added(q1, t) == Bind(insert_task(q1, t),
                             LAMBDA q2 : [q2 EXCEPT !.nr_running = @ + 1,
                                                    !.load_weight = @ + q2.task[t].weight])
    IN IF found = NULL
       THEN IF q.free = NULL THEN w
            ELSE LET t == q.free
                     q1 == [q EXCEPT !.free = q.task[t].next,
                                     !.task[t] = [CfsZeroTask(NULL) EXCEPT
                                         !.pid = pid, !.nice = CFS_NICE_DEFAULT,
                                         !.weight = cfs_nice_to_weight(CFS_NICE_DEFAULT),
                                         !.vruntime = q.min_vruntime]]
                 IN [w EXCEPT !.cfs = added(cfs_place_task(q1, t, TRUE), t)]
       ELSE IF q.task[found].on_rq THEN w
       ELSE [w EXCEPT !.cfs = added(cfs_place_task(q, found, FALSE), found)]

(* The common part of cfs_dequeue and cfs_sleep: a current task is charged *)
(* and cleared, a queued one leaves the timeline.                          *)
CfsTakeOff(q, t) ==
    Bind(IF t = q.curr THEN [update_current(q) EXCEPT !.curr = NULL] ELSE q,
         LAMBDA q1 : IF q1.task[t].on_rq
                     THEN [remove_task(q1, t) EXCEPT
                              !.nr_running = @ - 1,
                              !.load_weight = @ - q1.task[t].weight]
                     ELSE q1)

cfs_dequeue(w, pid) ==
    LET q == w.cfs
        t == find_task(q, pid)
    IN IF t = NULL THEN w
       ELSE Bind(CfsTakeOff(q, t),
                 LAMBDA q2 : [w EXCEPT !.cfs = cfs_update_min_vruntime(
                                 [q2 EXCEPT !.task[t].next = q2.free, !.free = t])])

cfs_sleep(w, pid) ==
    LET q == w.cfs
        t == find_task(q, pid)
    IN IF t = NULL THEN w
       ELSE [w EXCEPT !.cfs =
                CfsTakeOff([q EXCEPT !.task[t].sleep_start = q.system_clock], t)]

cfs_sleeper_credit(q, t, sleep_time) ==
    LET max_credit == cfs_calc_delta(cfs_sched_latency(q) \div 2, q.task[t].weight)
        credit == cfs_calc_delta(sleep_time, q.task[t].weight) \div 2
    IN IF credit > max_credit THEN max_credit ELSE credit

cfs_wakeup(w, pid) ==
    LET q == w.cfs
        t == find_task(q, pid)
    IN IF t = NULL \/ q.task[t].on_rq THEN w
       ELSE LET sleep_time == q.system_clock - q.task[t].sleep_start
                credit == cfs_sleeper_credit(q, t, sleep_time)
                q1 == IF sleep_time > 0 /\ q.task[t].vruntime > credit
                      THEN [q EXCEPT !.task[t].vruntime = @ - credit]
                      ELSE q
            IN Bind(insert_task(cfs_place_task(q1, t, FALSE), t),
                    LAMBDA q2 : [w EXCEPT !.cfs = [q2 EXCEPT
                                    !.nr_running = @ + 1,
                                    !.load_weight = @ + q2.task[t].weight]])

cfs_tick(w) ==
    LET q0 == [w.cfs EXCEPT !.system_clock = @ + 1,
                            !.clock = w.cfs.system_clock + 1,
                            !.clock_task = w.cfs.system_clock + 1]
        curr == w.cfs.curr
    IN IF curr = NULL THEN [w EXCEPT !.cfs = q0]
       ELSE Bind(update_current(q0),
                 LAMBDA q1 :
                    IF q1.task[curr].sum_exec - q1.task[curr].prev_sum_exec
                          >= cfs_timeslice(q1, curr)
                       /\ q1.nr_running > 1
                    THEN cfs_schedule([w EXCEPT !.cfs =
                             [q1 EXCEPT !.task[curr].prev_sum_exec =
                                           q1.task[curr].sum_exec]])
                    ELSE [w EXCEPT !.cfs = q1])

(* cfs_validate, check by check.                                           *)
CfsSorted(q) ==
    LET ch == CfsChain(q)
    IN \A i \in 1..Len(ch) :
          q.task[ch[i]].vruntime >= (IF i = 1 THEN 0 ELSE q.task[ch[i - 1]].vruntime)

CfsAllOnRq(q) ==
    LET ch == CfsChain(q) IN \A i \in 1..Len(ch) : q.task[ch[i]].on_rq

RECURSIVE CfsSumWeight(_, _)
CfsSumWeight(task, ch) ==
    IF ch = <<>> THEN 0 ELSE task[Head(ch)].weight + CfsSumWeight(task, Tail(ch))

cfs_validate(q) ==
    /\ CfsSorted(q)
    /\ CfsAllOnRq(q)
    /\ Len(CfsChain(q)) = q.nr_running
    /\ CfsSumWeight(q.task, CfsChain(q)) = q.load_weight
    /\ q.tasks_timeline = q.leftmost

(* ---------------------------------------------------------------------- *)
(* realtime.c                                                              *)
(* ---------------------------------------------------------------------- *)
RT_DEFAULT_PERIOD == 100
RT_DEFAULT_DEADLINE == 100
RT_DEFAULT_WCET == 10

(* Size of task_pool (RT_MAX_TASKS in the source), scaled down, and the    *)
(* cap on system_time.                                                     *)
RtPoolSize == 3
MaxTime == 1

(* Result of a list walk that never reaches its exit (a cyclic list).      *)
HUNG == 0 - 2

(* A task as alloc_task leaves it (memset to zero).  rt_task_t has a single *)
(* next field, used by all_tasks, by the ready list and by the free list.  *)
(* The per-task statistics only accumulate and are left out; of stats,     *)
(* total_deadline_misses is kept.                                          *)
RtZeroParams == [period |-> 0, deadline |-> 0, wcet |-> 0, miss_policy |-> "SKIP"]

RtZeroTask(nxt) ==
    [pid |-> 0, params |-> RtZeroParams, state |-> "INACTIVE", release_time |-> 0,
     absolute_deadline |-> 0, remaining_time |-> 0, start_time |-> 0,
     rms_priority |-> 0, laxity |-> 0, next |-> nxt]

RtStatic ==
    [free |-> NULL, ready_queue |-> NULL, current_task |-> NULL, task_count |-> 0,
     current_algo |-> "EDF", system_time |-> 0, all_tasks |-> NULL, hung |-> FALSE,
     total_deadline_misses |-> 0,
     task |-> [i \in 0..(RtPoolSize - 1) |-> RtZeroTask(NULL)]]

(* The nodes met from h following next, each once.                         *)
RtReach(task, h) ==
    LET ch == Chain(task, h, RtPoolSize) IN {ch[i] : i \in 1..Len(ch)}

(* A walk from h that only stops at NULL does not return.                  *)
RtCyclic(task, h) == Len(Chain(task, h, RtPoolSize + 1)) > RtPoolSize

Hang(w) == [w EXCEPT !.rt.hung = TRUE]

RECURSIVE RtFind(_, _, _, _)
RtFind(task, t, pid, fuel) ==
    IF t = NULL THEN NULL
    ELSE IF fuel = 0 THEN HUNG
    ELSE IF task[t].pid = pid THEN t
    ELSE RtFind(task, task[t].next, pid, fuel - 1)

(* find_task of realtime.c: the task, NULL, or HUNG.                       *)
rt_find_task(r, pid) == RtFind(r.task, r.all_tasks, pid, RtPoolSize)

RtInsertHere(r, t, c) ==
    CASE r.current_algo = "EDF" ->
            r.task[t].absolute_deadline < r.task[c].absolute_deadline
      [] r.current_algo \in {"RMS", "DMS"} ->
            r.task[t].rms_priority > r.task[c].rms_priority
      [] r.current_algo = "LLF" ->
            r.task[t].laxity < r.task[c].laxity

(* The value of prev when the search loop of insert_ready exits.           *)
RECURSIVE RtInsertPos(_, _, _, _, _)
RtInsertPos(r, t, prev, curr, fuel) ==
    IF curr = NULL THEN prev
    ELSE IF fuel = 0 THEN HUNG
    ELSE IF RtInsertHere(r, t, curr) THEN prev
    ELSE RtInsertPos(r, t, curr, r.task[curr].next, fuel - 1)

insert_ready(w, t) ==
    IF w.rt.hung \/ t = NULL THEN w
    ELSE LET r == [w.rt EXCEPT !.task[t].state = "READY"] IN
    IF r.ready_queue = NULL
    THEN [w EXCEPT !.rt = [r EXCEPT !.task[t].next = NULL, !.ready_queue = t]]
    ELSE LET prev == RtInsertPos(r, t, NULL, r.ready_queue, RtPoolSize)
         IN IF prev = HUNG THEN Hang([w EXCEPT !.rt = r])
            ELSE IF prev = NULL
            THEN [w EXCEPT !.rt = [r EXCEPT !.task[t].next = r.ready_queue,
                                            !.ready_queue = t]]
            ELSE LET t1 == [r.task EXCEPT ![t].next = r.task[prev].next]
                 IN [w EXCEPT !.rt = [r EXCEPT !.task = [t1 EXCEPT ![prev].next = t]]]

(* The value of prev when the search loop of remove_ready exits.           *)
RECURSIVE RtPrevOf(_, _, _, _)
RtPrevOf(task, prev, t, fuel) ==
    IF task[prev].next = NULL \/ task[prev].next = t THEN prev
    ELSE IF fuel = 0 THEN HUNG
    ELSE RtPrevOf(task, task[prev].next, t, fuel - 1)

remove_ready(w, t) ==
    LET r == w.rt IN
    IF r.hung \/ t = NULL \/ r.ready_queue = NULL THEN w
    ELSE IF r.ready_queue = t
    THEN [w EXCEPT !.rt.ready_queue = r.task[t].next, !.rt.task[t].next = NULL]
    ELSE LET prev == RtPrevOf(r.task, r.ready_queue, t, RtPoolSize)
         IN IF prev = HUNG THEN Hang(w)
            ELSE IF r.task[prev].next = t
            THEN LET t1 == [r.task EXCEPT ![prev].next = r.task[t].next]
                 IN [w EXCEPT !.rt.task = [t1 EXCEPT ![t].next = NULL]]
            ELSE w

realtime_init(w) ==
    [w EXCEPT !.rt =
        [free |-> 0, ready_queue |-> NULL, current_task |-> NULL, task_count |-> 0,
         current_algo |-> "EDF", system_time |-> 0, all_tasks |-> NULL, hung |-> FALSE,
         total_deadline_misses |-> 0,
         task |-> [i \in 0..(RtPoolSize - 1) |->
                     [w.rt.task[i] EXCEPT
                        !.next = IF i < RtPoolSize - 1 THEN i + 1 ELSE NULL]]]]

(* realtime_shutdown: each task met from all_tasks is pushed on the free   *)
(* list; its next has been read before free_task overwrites it.            *)
RECURSIVE RtFreeAll(_, _, _)
RtFreeAll(r, t, seen) ==
    IF t = NULL THEN r
    ELSE IF <<t, r>> \in seen THEN [r EXCEPT !.hung = TRUE]
    ELSE RtFreeAll([r EXCEPT !.task[t].next = r.free, !.free = t],
                   r.task[t].next, seen \cup {<<t, r>>})

realtime_shutdown(w) ==
    IF w.rt.hung THEN w
    ELSE LET r == RtFreeAll(w.rt, w.rt.all_tasks, {})
         IN IF r.hung THEN [w EXCEPT !.rt = r]
            ELSE [w EXCEPT !.rt = [r EXCEPT !.ready_queue = NULL, !.all_tasks = NULL,
                                            !.current_task = NULL, !.task_count = 0]]

(* Re-insertion of a detached queue, task by task (realtime_set_algorithm  *)
(* and the LLF branch of realtime_tick).  The loop does not return when it *)
(* comes back to a configuration it has already been in.                   *)
RECURSIVE RtRequeue(_, _, _)
RtRequeue(w, old_queue, seen) ==
    IF w.rt.hung \/ old_queue = NULL THEN w
    ELSE IF <<old_queue, w.rt>> \in seen THEN Hang(w)
    ELSE LET t == old_queue
             nx == w.rt.task[t].next
         IN RtRequeue(insert_ready([w EXCEPT !.rt.task[t].next = NULL], t), nx,
                      seen \cup {<<old_queue, w.rt>>})

(* sorted[] of rms_assign_priorities / dms_assign_priorities: at most      *)
(* RT_MAX_TASKS tasks met from all_tasks, bubble-sorted (stable) by key.   *)
RECURSIVE RtInsertSorted(_, _, _)
RtInsertSorted(sorted, t, key) ==
    IF sorted = <<>> THEN <<t>>
    ELSE IF key[sorted[Len(sorted)]] > key[t]
         THEN RtInsertSorted(SubSeq(sorted, 1, Len(sorted) - 1), t, key)
              \o <<sorted[Len(sorted)]>>
         ELSE sorted \o <<t>>

RECURSIVE RtSortBy(_, _)
RtSortBy(ch, key) ==
    IF ch = <<>> THEN <<>>
    ELSE RtInsertSorted(RtSortBy(SubSeq(ch, 1, Len(ch) - 1), key), ch[Len(ch)], key)

RECURSIVE RtAssign(_, _, _, _)
RtAssign(task, sorted, i, count) ==
    IF i > count THEN task
    ELSE RtAssign([task EXCEPT ![sorted[i]].rms_priority = count - (i - 1)],
                  sorted, i + 1, count)

RtAssignBy(w, key) ==
    IF w.rt.hung THEN w
    ELSE LET sorted == RtSortBy(Chain(w.rt.task, w.rt.all_tasks, RtPoolSize), key)
         IN [w EXCEPT !.rt.task = RtAssign(w.rt.task, sorted, 1, Len(sorted))]

rms_assign_priorities(w) ==
    RtAssignBy(w, [i \in DOMAIN w.rt.task |-> w.rt.task[i].params.period])

dms_assign_priorities(w) ==
    RtAssignBy(w, [i \in DOMAIN w.rt.task |-> w.rt.task[i].params.deadline])

llf_update_laxity(w) ==
    LET r == w.rt IN
    IF r.hung THEN w
    ELSE LET S == RtReach(r.task, r.all_tasks)
             w1 == [w EXCEPT !.rt.task = [i \in DOMAIN r.task |->
                       IF i \in S /\ r.task[i].state \in {"READY", "RUNNING"}
                       THEN [r.task[i] EXCEPT !.laxity =
                               (r.task[i].absolute_deadline - r.system_time)
                               - r.task[i].remaining_time]
                       ELSE r.task[i]]]
         IN IF RtCyclic(r.task, r.all_tasks) THEN Hang(w1) ELSE w1

realtime_set_algorithm(w, algo) ==
    IF w.rt.hung \/ algo = w.rt.current_algo THEN w
    ELSE Bind(Bind([w EXCEPT !.rt.current_algo = algo],
                   LAMBDA w0 : CASE algo = "RMS" -> rms_assign_priorities(w0)
                                 [] algo = "DMS" -> dms_assign_priorities(w0)
                                 [] algo = "LLF" -> llf_update_laxity(w0)
                                 [] OTHER -> w0),
              LAMBDA w1 :
                 IF w1.rt.hung THEN w1
                 ELSE RtRequeue([w1 EXCEPT !.rt.ready_queue = NULL],
                                w1.rt.ready_queue, {}))

(* The first READY task of minimal laxity on the ready list.               *)
RtMinLaxity(r) ==
    LET ch == Chain(r.task, r.ready_queue, RtPoolSize)
        C == {i \in 1..Len(ch) : r.task[ch[i]].state = "READY"}
    IN IF C = {} THEN NULL
       ELSE ch[CHOOSE i \in C : \A j \in C :
                   \/ r.task[ch[i]].laxity < r.task[ch[j]].laxity
                   \/ (r.task[ch[i]].laxity = r.task[ch[j]].laxity /\ i <= j)]

(* Returns [w, r]: llf_update_laxity changes the world.                    *)
llf_pick_next(w) ==
    Bind(llf_update_laxity(w),
         LAMBDA w1 :
            IF w1.rt.hung THEN [w |-> w1, r |-> NULL]
            ELSE IF RtCyclic(w1.rt.task, w1.rt.ready_queue)
            THEN [w |-> Hang(w1), r |-> NULL]
            ELSE [w |-> w1, r |-> RtMinLaxity(w1.rt)])

(* realtime_schedule once next has been removed from the ready list.       *)
RtDispatch(w1, next) ==
    LET cur == w1.rt.current_task IN
    IF w1.rt.hung \/ next = cur THEN w1
    ELSE Bind(IF cur # NULL /\ w1.rt.task[cur].state = "RUNNING"
              THEN insert_ready(w1, cur)
              ELSE w1,
              LAMBDA w2 :
                 IF w2.rt.hung THEN w2
                 ELSE context_switch(
                        [w2 EXCEPT !.rt.current_task = next,
                                   !.rt.task[next].state = "RUNNING",
                                   !.rt.task[next].start_time = w2.rt.system_time],
                        IF cur # NULL THEN w1.rt.task[cur].pid ELSE NULL,
                        w2.rt.task[next].pid))

realtime_schedule(w) ==
    IF w.rt.hung THEN w
    ELSE Bind(IF w.rt.current_algo = "LLF" THEN llf_pick_next(w)
              ELSE [w |-> w, r |-> w.rt.ready_queue],
              LAMBDA p :
                 IF p.w.rt.hung THEN p.w
                 ELSE IF p.r = NULL THEN [p.w EXCEPT !.rt.current_task = NULL]
                 ELSE RtDispatch(remove_ready(p.w, p.r), p.r))

realtime_yield(w) ==
    IF w.rt.hung THEN w
    ELSE LET cur == w.rt.current_task IN
    IF cur = NULL THEN realtime_schedule(w)
    ELSE LET elapsed == w.rt.system_time - w.rt.task[cur].start_time
         IN Bind(insert_ready([w EXCEPT !.rt.task[cur].remaining_time =
                                  IF elapsed < @ THEN @ - elapsed ELSE 0], cur),
                 LAMBDA w2 :
                    IF w2.rt.hung THEN w2
                    ELSE realtime_schedule([w2 EXCEPT !.rt.current_task = NULL]))

realtime_preempt(w) == realtime_schedule(w)

(* Returns [w, r]: the LLF case calls llf_update_laxity.                   *)
realtime_check_preempt(w) ==
    LET r == w.rt IN
    IF r.current_task = NULL THEN [w |-> w, r |-> r.ready_queue # NULL]
    ELSE IF r.ready_queue = NULL THEN [w |-> w, r |-> FALSE]
    ELSE CASE r.current_algo = "EDF" ->
                [w |-> w, r |-> r.task[r.ready_queue].absolute_deadline
                                  < r.task[r.current_task].absolute_deadline]
           [] r.current_algo \in {"RMS", "DMS"} ->
                [w |-> w, r |-> r.task[r.ready_queue].rms_priority
                                  > r.task[r.current_task].rms_priority]
           [] r.current_algo = "LLF" ->
                Bind(llf_update_laxity(w),
                     LAMBDA w1 : [w |-> w1,
                                  r |-> w1.rt.task[r.ready_queue].laxity
                                          < w1.rt.task[r.current_task].laxity])

(* if (realtime_check_preempt()) realtime_schedule();                      *)
RtPreemptCheck(w) ==
    Bind(realtime_check_preempt(w),
         LAMBDA c : IF c.w.rt.hung THEN c.w
                    ELSE IF c.r THEN realtime_schedule(c.w) ELSE c.w)

realtime_release(w, t) ==
    IF w.rt.hung \/ t = NULL THEN w
    ELSE LET r == w.rt
             w1 == [w EXCEPT !.rt.task[t] = [r.task[t] EXCEPT
                       !.release_time = r.system_time,
                       !.absolute_deadline = r.system_time + r.task[t].params.deadline,
                       !.remaining_time = r.task[t].params.wcet,
                       !.state = "READY",
                       !.laxity = IF r.current_algo = "LLF"
                                  THEN r.task[t].params.deadline - r.task[t].params.wcet
                                  ELSE @]]
         IN Bind(insert_ready(w1, t),
                 LAMBDA w2 : IF w2.rt.hung THEN w2 ELSE RtPreemptCheck(w2))

(* Returns [w, r] with r = 0 on success and -1 on failure.                 *)
realtime_create_task(w, pid, params) ==
    LET r == w.rt
        f == rt_find_task(r, pid)
    IN IF r.hung THEN [w |-> w, r |-> NULL]
       ELSE IF f = HUNG THEN [w |-> Hang(w), r |-> NULL]
       ELSE IF f # NULL \/ r.free = NULL THEN [w |-> w, r |-> NULL]
       ELSE LET t == r.free
                w1 == [w EXCEPT !.rt.free = r.task[t].next,
                                !.rt.task[t] = [RtZeroTask(r.all_tasks) EXCEPT
                                    !.pid = pid, !.params = params,
                                    !.remaining_time = params.wcet],
                                !.rt.all_tasks = t,
                                !.rt.task_count = @ + 1]
            IN [w |-> CASE r.current_algo = "RMS" -> rms_assign_priorities(w1)
                        [] r.current_algo = "DMS" -> dms_assign_priorities(w1)
                        [] OTHER -> [w1 EXCEPT !.rt.task[t].rms_priority = 1],
                r |-> 0]

RtDefaultParams ==
    [period |-> RT_DEFAULT_PERIOD, deadline |-> RT_DEFAULT_DEADLINE,
     wcet |-> RT_DEFAULT_WCET, miss_policy |-> "NOTIFY"]

realtime_enqueue(w, pid) ==
    IF w.rt.hung THEN w
    ELSE Bind(rt_find_task(w.rt, pid), LAMBDA f :
    IF f = HUNG THEN Hang(w)
    ELSE Bind(IF f = NULL THEN realtime_create_task(w, pid, RtDefaultParams).w ELSE w,
              LAMBDA w1 :
    IF w1.rt.hung THEN w1
    ELSE Bind(IF f = NULL THEN rt_find_task(w1.rt, pid) ELSE f, LAMBDA t :
    IF t = HUNG THEN Hang(w1)
    ELSE IF t # NULL /\ w1.rt.task[t].state \notin {"READY", "RUNNING"}
    THEN realtime_release(w1, t)
    ELSE w1)))

(* The value of prev when the search loop of realtime_dequeue exits.       *)
RECURSIVE RtPrevInAll(_, _, _, _)
RtPrevInAll(task, prev, t, fuel) ==
    IF prev = NULL THEN NULL
    ELSE IF task[prev].next = t THEN prev
    ELSE IF fuel = 0 THEN HUNG
    ELSE RtPrevInAll(task, task[prev].next, t, fuel - 1)

realtime_dequeue(w, pid) ==
    IF w.rt.hung THEN w
    ELSE LET t == rt_find_task(w.rt, pid) IN
    IF t = HUNG THEN Hang(w)
    ELSE IF t = NULL THEN w
    ELSE Bind(remove_ready(w, t), LAMBDA w1 :
    IF w1.rt.hung THEN w1
    ELSE LET r == w1.rt
             prev == IF r.all_tasks = t THEN NULL
                     ELSE RtPrevInAll(r.task, r.all_tasks, t, RtPoolSize)
         IN IF prev = HUNG THEN Hang(w1)
            ELSE LET r1 == IF r.all_tasks = t
                           THEN [r EXCEPT !.all_tasks = r.task[t].next]
                           ELSE IF prev # NULL
                           THEN [r EXCEPT !.task[prev].next = r.task[t].next]
                           ELSE r
                 IN [w1 EXCEPT !.rt = [r1 EXCEPT
                        !.current_task = IF @ = t THEN NULL ELSE @,
                        !.task_count = @ - 1,
                        !.task[t].next = r1.free,
                        !.free = t]])

(* Returns [w, r] with r = 0 on success and -1 on failure.                 *)
realtime_set_params(w, pid, params) ==
    IF w.rt.hung THEN [w |-> w, r |-> NULL]
    ELSE LET t == rt_find_task(w.rt, pid) IN
    IF t = HUNG THEN [w |-> Hang(w), r |-> NULL]
    ELSE IF t = NULL THEN [w |-> w, r |-> NULL]
    ELSE LET w1 == [w EXCEPT !.rt.task[t].params = params]
         IN [w |-> CASE w.rt.current_algo = "RMS" -> rms_assign_priorities(w1)
                     [] w.rt.current_algo = "DMS" -> dms_assign_priorities(w1)
                     [] OTHER -> w1,
             r |-> 0]

realtime_complete(w, pid) ==
    IF w.rt.hung THEN w
    ELSE LET t == rt_find_task(w.rt, pid) IN
    IF t = HUNG THEN Hang(w)
    ELSE IF t = NULL THEN w
    ELSE realtime_schedule(remove_ready(
             [w EXCEPT !.rt.task[t].state = "COMPLETED",
                       !.rt.current_task = IF @ = t THEN NULL ELSE @], t))

realtime_check_deadline(r, t) ==
    IF t = NULL THEN FALSE ELSE r.system_time > r.task[t].absolute_deadline

realtime_handle_miss(w, t) ==
    IF w.rt.hung \/ t = NULL THEN w
    ELSE LET w1 == [w EXCEPT !.rt.task[t].state = "MISSED",
                             !.rt.total_deadline_misses = @ + 1]
             mp == w.rt.task[t].params.miss_policy
         IN CASE mp = "SKIP" -> remove_ready(w1, t)
              [] mp = "ABORT" ->
                    Bind(remove_ready(w1, t),
                         LAMBDA w2 :
                            IF w2.rt.hung THEN w2
                            ELSE [w2 EXCEPT !.rt.current_task =
                                               IF @ = t THEN NULL ELSE @])
              [] OTHER -> w1

(* The walks of realtime_check_deadlines and realtime_check_releases read  *)
(* task->next after the body has run; they do not return when they come    *)
(* back to a configuration they have already been in.                      *)
RECURSIVE RtCheckDeadlinesFrom(_, _, _)
RtCheckDeadlinesFrom(w, t, seen) ==
    IF w.rt.hung \/ t = NULL THEN w
    ELSE IF <<t, w.rt>> \in seen THEN Hang(w)
    ELSE Bind(IF w.rt.task[t].state \in {"READY", "RUNNING"}
                 /\ realtime_check_deadline(w.rt, t)
              THEN realtime_handle_miss(w, t)
              ELSE w,
              LAMBDA w1 : RtCheckDeadlinesFrom(w1, w1.rt.task[t].next,
                              seen \cup {<<t, w.rt>>}))

realtime_check_deadlines(w) == RtCheckDeadlinesFrom(w, w.rt.all_tasks, {})

RECURSIVE RtCheckReleasesFrom(_, _, _)
RtCheckReleasesFrom(w, t, seen) ==
    IF w.rt.hung \/ t = NULL THEN w
    ELSE IF <<t, w.rt>> \in seen THEN Hang(w)
    ELSE Bind(IF w.rt.task[t].state \in {"COMPLETED", "MISSED", "INACTIVE"}
                 /\ w.rt.system_time
                      >= w.rt.task[t].release_time + w.rt.task[t].params.period
              THEN realtime_release(w, t)
              ELSE w,
              LAMBDA w1 : RtCheckReleasesFrom(w1, w1.rt.task[t].next,
                              seen \cup {<<t, w.rt>>}))

realtime_check_releases(w) == RtCheckReleasesFrom(w, w.rt.all_tasks, {})

(* The part of realtime_tick that charges the running task.                *)
RtTickRun(w0) ==
    LET cur == w0.rt.current_task IN
    IF cur # NULL /\ w0.rt.task[cur].state = "RUNNING"
    THEN Bind(IF w0.rt.task[cur].remaining_time > 0
              THEN [w0 EXCEPT !.rt.task[cur].remaining_time = @ - 1]
              ELSE w0,
              LAMBDA wa : IF wa.rt.task[cur].remaining_time = 0
                          THEN realtime_complete(wa, wa.rt.task[cur].pid)
                          ELSE wa)
    ELSE w0

(* The LLF branch of realtime_tick.                                        *)
RtTickLlf(w2) ==
    IF w2.rt.hung \/ w2.rt.current_algo # "LLF" THEN w2
    ELSE Bind(llf_update_laxity(w2),
              LAMBDA wl : IF wl.rt.hung THEN wl
                          ELSE RtRequeue([wl EXCEPT !.rt.ready_queue = NULL],
                                         wl.rt.ready_queue, {}))

realtime_tick(w) ==
    IF w.rt.hung THEN w
    ELSE Bind(RtTickLlf(realtime_check_releases(realtime_check_deadlines(
                  RtTickRun([w EXCEPT !.rt.system_time = @ + 1])))),
              LAMBDA w3 : IF w3.rt.hung THEN w3 ELSE RtPreemptCheck(w3))

(* The ready list, cut after RtPoolSize nodes when it is cyclic.           *)
RtReadyChain(r) == Chain(r.task, r.ready_queue, RtPoolSize)

(* realtime_validate, for an acyclic ready list.                           *)
realtime_validate(r) ==
    LET ch == RtReadyChain(r)
    IN /\ \A i \in 2..Len(ch) :
            /\ r.current_algo = "EDF" =>
                 ~(r.task[ch[i]].absolute_deadline < r.task[ch[i - 1]].absolute_deadline)
            /\ r.current_algo \in {"RMS", "DMS"} =>
                 ~(r.task[ch[i]].rms_priority > r.task[ch[i - 1]].rms_priority)
       /\ \A i \in 1..Len(ch) : r.task[ch[i]].state = "READY"

(* ---------------------------------------------------------------------- *)
(* multilevel_queue.c                                                      *)
(* ---------------------------------------------------------------------- *)
MLFQ_NUM_LEVELS == 8
MLFQ_BOOST_INTERVAL == 1000
MLFQ_IO_BONUS_LEVELS == 2

MlfqLevels == 0..(MLFQ_NUM_LEVELS - 1)

(* The initialiser of level_quantums: MLFQ_Q0_QUANTUM .. MLFQ_Q7_QUANTUM,  *)
(* 2, 4, 8, ..., 256 ticks.                                                *)
MLFQ_QUANTUMS == [l \in MlfqLevels |-> 2 * 2^l]

(* mlfq_find_node never stores through out_level, so the callers' local    *)
(* "level" keeps whatever its stack slot held: any 32-bit value.  The      *)
(* values are taken from MlfqGarbageLevels; a level beyond the arrays      *)
(* makes level_allotments[level] read a word that is no allotment, taken   *)
(* from MlfqStrayWords.                                                    *)
MlfqGarbageLevels == {1, MLFQ_NUM_LEVELS + 1}
MlfqStrayWords == {4}
MlfqGarbage ==
    {[level |-> l, word |-> 0] : l \in MlfqGarbageLevels \cap MlfqLevels}
        \cup [level : MlfqGarbageLevels \ MlfqLevels, word : MlfqStrayWords]

(* A node of mlfq_node_pool.  arrival_time is only reported and is left    *)
(* out, as are mlfq_stats, mlfq_ticks and the quantum and allotment fields *)
(* of a queue, which no scheduling decision reads.  mlfq_schedule counts   *)
(* in mlfq_stats.per_level_time[level] with the uninitialised level: the   *)
(* statistics, and the memory beyond them that this increment can reach,   *)
(* are outside the model.                                                  *)
MlfqFreeNode(nxt) ==
    [pid |-> NULL, level |-> 0, time_allotment |-> 0, time_used |-> 0,
     io_count |-> 0, next |-> nxt, prev |-> NULL]

MlfqEmptyQueue == [head |-> NULL, tail |-> NULL, count |-> 0]

mlfq_pool_init ==
    [i \in 0..(NPROC - 1) |-> MlfqFreeNode(IF i < NPROC - 1 THEN i + 1 ELSE NULL)]

MlfqStatic ==
    [queue |-> [l \in MlfqLevels |-> MlfqEmptyQueue],
     node |-> [i \in 0..(NPROC - 1) |-> MlfqFreeNode(NULL)], free |-> NULL,
     level_quantums |-> MLFQ_QUANTUMS,
     level_allotments |-> [l \in MlfqLevels |-> 0],
     boost_enabled |-> TRUE, boost_interval |-> MLFQ_BOOST_INTERVAL,
     boost_counter |-> 0, io_bonus_enabled |-> TRUE,
     current_node |-> NULL, current_time_used |-> 0]

(* level_allotments[level] as the machine reads it.                        *)
MlfqAllotment(q, g) ==
    IF g.level < MLFQ_NUM_LEVELS THEN q.level_allotments[g.level] ELSE g.word

mlfq_node_alloc(q) ==
    IF q.free = NULL THEN [q |-> q, r |-> NULL]
    ELSE [q |-> [q EXCEPT !.free = q.node[q.free].next,
                          !.node[q.free] = [MlfqFreeNode(NULL) EXCEPT
                              !.time_allotment = q.level_allotments[0]]],
          r |-> q.free]

mlfq_node_free(q, n) ==
    IF n = NULL THEN q
    ELSE [q EXCEPT !.node[n].next = q.free, !.free = n]

(* The nodes of the queues in the order mlfq_find_node visits them.        *)
RECURSIVE MlfqWalk(_, _)
MlfqWalk(q, level) ==
    IF level >= MLFQ_NUM_LEVELS THEN <<>>
    ELSE Chain(q.node, q.queue[level].head, NPROC + 1) \o MlfqWalk(q, level + 1)

mlfq_find_node(q, pid) ==
    LET ch == MlfqWalk(q, 0)
        k == PrefixLen(ch, LAMBDA n : q.node[n].pid # pid)
    IN IF k = Len(ch) THEN NULL ELSE ch[k + 1]

mlfq_add_to_level(q, n, level) ==
    LET lv == IF level >= MLFQ_NUM_LEVELS THEN MLFQ_NUM_LEVELS - 1 ELSE level
        tail == q.queue[lv].tail
        n1 == [q.node EXCEPT ![n].level = lv, ![n].next = NULL, ![n].prev = tail]
    IN [q EXCEPT !.node = IF tail # NULL THEN [n1 EXCEPT ![tail].next = n] ELSE n1,
                 !.queue[lv] = [head |-> IF tail # NULL THEN @.head ELSE n,
                                tail |-> n,
                                count |-> @.count + 1]]

(* mlfq_remove_from_queue without "queue->tail = node->prev".              *)
mlfq_remove_from_queue_keep_tail(q, n) ==
    LET level == q.node[n].level
        p == q.node[n].prev
        x == q.node[n].next
        n1 == IF p # NULL THEN [q.node EXCEPT ![p].next = x] ELSE q.node
        n2 == IF x # NULL THEN [n1 EXCEPT ![x].prev = p] ELSE n1
    IN [q EXCEPT !.node = [n2 EXCEPT ![n].next = NULL, ![n].prev = NULL],
                 !.queue[level] = [head |-> IF p # NULL THEN @.head ELSE x,
                                   tail |-> @.tail,
                                   count |-> @.count - 1]]

mlfq_remove_from_queue(q, n) ==
    LET level == q.node[n].level
        p == q.node[n].prev
        x == q.node[n].next
        n1 == IF p # NULL THEN [q.node EXCEPT ![p].next = x] ELSE q.node
        n2 == IF x # NULL THEN [n1 EXCEPT ![x].prev = p] ELSE n1
    IN [q EXCEPT !.node = [n2 EXCEPT ![n].next = NULL, ![n].prev = NULL],
                 !.queue[level] = [head |-> IF p # NULL THEN @.head ELSE x,
                                   tail |-> IF x # NULL THEN @.tail ELSE p,
                                   count |-> @.count - 1]]

(* level_quantums is initialised at load time only; mlfq_init keeps what   *)
(* mlfq_set_quantum stored in it.                                          *)
mlfq_init(w) ==
    [w EXCEPT !.mlfq =
        [queue |-> [l \in MlfqLevels |-> MlfqEmptyQueue],
         node |-> mlfq_pool_init, free |-> 0,
         level_quantums |-> w.mlfq.level_quantums,
         level_allotments |-> [l \in MlfqLevels |->
                                  w.mlfq.level_quantums[l] * 2],
         boost_enabled |-> TRUE, boost_interval |-> MLFQ_BOOST_INTERVAL,
         boost_counter |-> 0, io_bonus_enabled |-> TRUE,
         current_node |-> NULL, current_time_used |-> 0]]

mlfq_shutdown(w) ==
    [w EXCEPT !.mlfq.queue = [l \in MlfqLevels |-> MlfqEmptyQueue],
              !.mlfq.current_node = NULL]

MlfqStartLevel(pprio) ==
    IF pprio >= 75 THEN 0 ELSE IF pprio >= 50 THEN 2 ELSE IF pprio >= 25 THEN 4 ELSE 6

mlfq_enqueue(w, pid) ==
    IF pid < 0 \/ pid >= NPROC THEN w
    ELSE IF mlfq_find_node(w.mlfq, pid) # NULL THEN w
    ELSE Bind(mlfq_node_alloc(w.mlfq),
              LAMBDA a :
                IF a.r = NULL THEN w
                ELSE LET start_level == MlfqStartLevel(w.k.pprio[pid])
                         q1 == [a.q EXCEPT
                                  !.node[a.r].pid = pid,
                                  !.node[a.r].time_allotment =
                                      a.q.level_allotments[start_level],
                                  !.node[a.r].time_used = 0,
                                  !.node[a.r].io_count = 0]
                     IN [w EXCEPT !.mlfq = mlfq_add_to_level(q1, a.r, start_level)])

mlfq_dequeue(w, pid) ==
    IF pid < 0 \/ pid >= NPROC THEN w
    ELSE LET q == w.mlfq
             node == mlfq_find_node(q, pid)
         IN IF node = NULL THEN w
            ELSE [w EXCEPT !.mlfq =
                    mlfq_node_free(
                        mlfq_remove_from_queue(
                            [q EXCEPT !.current_node = IF @ = node THEN NULL ELSE @],
                            node),
                        node)]

mlfq_pick_next(w) ==
    LET ch == MlfqWalk(w.mlfq, 0)
    IN IF ch = <<>> THEN NULL ELSE w.mlfq.node[ch[1]].pid

(* Remove node n, reset its accounting and append it to the given level.   *)
MlfqRequeue(q, n, level, allotment) ==
    mlfq_add_to_level(
        [mlfq_remove_from_queue(q, n) EXCEPT !.node[n].time_allotment = allotment,
                                             !.node[n].time_used = 0],
        n, level)

mlfq_move_to_level(w, pid, level) ==
    IF pid < 0 \/ pid >= NPROC \/ level >= MLFQ_NUM_LEVELS THEN w
    ELSE LET node == mlfq_find_node(w.mlfq, pid)
         IN IF node = NULL THEN w
            ELSE [w EXCEPT !.mlfq =
                    MlfqRequeue(w.mlfq, node, level, w.mlfq.level_allotments[level])]

(* The uninitialised local "level" holds w.stack.                          *)
mlfq_demote(w, pid) ==
    LET node == mlfq_find_node(w.mlfq, pid)
    IN IF node = NULL THEN w
       ELSE IF w.stack.level >= MLFQ_NUM_LEVELS - 1
       THEN [w EXCEPT !.mlfq.node[node].time_used = 0,
                      !.mlfq.node[node].time_allotment = MlfqAllotment(w.mlfq, w.stack)]
       ELSE [w EXCEPT !.mlfq =
                MlfqRequeue(w.mlfq, node, w.stack.level + 1,
                            w.mlfq.level_allotments[w.stack.level + 1])]

mlfq_promote(w, pid) ==
    LET node == mlfq_find_node(w.mlfq, pid)
    IN IF node = NULL THEN w
       ELSE IF w.stack.level = 0 THEN w
       ELSE [w EXCEPT !.mlfq =
                MlfqRequeue(w.mlfq, node, w.stack.level - 1,
                            MlfqAllotment(w.mlfq, [w.stack EXCEPT !.level = @ - 1]))]

mlfq_schedule(w) ==
    LET next_pid == mlfq_pick_next(w)
        old_pid == w.k.currpid
    IN IF next_pid < 0 THEN w
       ELSE IF next_pid # old_pid
       THEN LET ps1 == IF w.k.pstate[old_pid] = "PR_CURR"
                       THEN [w.k.pstate EXCEPT ![old_pid] = "PR_READY"]
                       ELSE w.k.pstate
            IN context_switch(
                 [w EXCEPT !.k.pstate = [ps1 EXCEPT ![next_pid] = "PR_CURR"],
                           !.k.currpid = next_pid,
                           !.mlfq.current_node = mlfq_find_node(w.mlfq, next_pid),
                           !.mlfq.current_time_used = 0],
                 old_pid, next_pid)
       ELSE w

(* The common tail of mlfq_yield and mlfq_preempt.                         *)
MlfqGiveUp(w) ==
    mlfq_schedule(
        [w EXCEPT !.k.pstate[w.k.currpid] = IF @ = "PR_CURR" THEN "PR_READY" ELSE @,
                  !.mlfq.current_node = NULL])

mlfq_yield(w) ==
    LET c == w.mlfq.current_node IN
    IF c = NULL THEN MlfqGiveUp(w)
    ELSE LET w1 == [w EXCEPT !.mlfq.node[c].io_count = @ + 1,
                             !.mlfq.node[c].time_used = 0]
         IN IF w1.mlfq.io_bonus_enabled /\ w1.mlfq.node[c].io_count > 5
            THEN MlfqGiveUp([mlfq_promote(w1, w1.mlfq.node[c].pid)
                                EXCEPT !.mlfq.node[c].io_count = 0])
            ELSE MlfqGiveUp(w1)

mlfq_preempt(w) ==
    LET c == w.mlfq.current_node IN
    IF c = NULL THEN MlfqGiveUp(w)
    ELSE LET q == w.mlfq
             w1 == [w EXCEPT !.mlfq.node[c].time_used =
                        @ + q.level_quantums[q.node[c].level]]
         IN IF w1.mlfq.node[c].time_used >= w1.mlfq.node[c].time_allotment
            THEN MlfqGiveUp(mlfq_demote(w1, q.node[c].pid))
            ELSE MlfqGiveUp([w1 EXCEPT !.mlfq =
                    mlfq_add_to_level(mlfq_remove_from_queue(w1.mlfq, c), c,
                                      q.node[c].level)])

(* The inner loop of mlfq_priority_boost over the nodes of one level,      *)
(* each taken with the next pointer saved before it is moved.              *)
RECURSIVE MlfqBoostNodes(_, _)
MlfqBoostNodes(q, ch) ==
    IF ch = <<>> THEN q
    ELSE MlfqBoostNodes(MlfqRequeue(q, ch[1], 0, q.level_allotments[0]), Tail(ch))

RECURSIVE MlfqBoostFrom(_, _)
MlfqBoostFrom(q, level) ==
    IF level >= MLFQ_NUM_LEVELS THEN q
    ELSE MlfqBoostFrom(
            MlfqBoostNodes(q, Chain(q.node, q.queue[level].head, NPROC + 1)),
            level + 1)

(* mlfq_priority_boost with its outer loop starting at level 2.            *)
mlfq_priority_boost_from_two(w) == [w EXCEPT !.mlfq = MlfqBoostFrom(w.mlfq, 2)]

mlfq_priority_boost(w) == [w EXCEPT !.mlfq = MlfqBoostFrom(w.mlfq, 1)]

mlfq_set_boost_interval(w, ticks) == [w EXCEPT !.mlfq.boost_interval = ticks]

mlfq_boost_enable(w, enable) == [w EXCEPT !.mlfq.boost_enabled = enable]

mlfq_get_quantum(w, level) ==
    w.mlfq.level_quantums[IF level >= MLFQ_NUM_LEVELS THEN MLFQ_NUM_LEVELS - 1
                          ELSE level]

mlfq_set_quantum(w, level, quantum) ==
    IF level >= MLFQ_NUM_LEVELS THEN w
    ELSE [w EXCEPT !.mlfq.level_quantums[level] = quantum,
                   !.mlfq.level_allotments[level] = quantum * 2]

mlfq_tick(w) ==
    LET q == w.mlfq
        used == q.current_time_used + 1
        w1 == [w EXCEPT !.mlfq.current_time_used = used,
                        !.k.need_resched =
                            IF /\ q.current_node # NULL
                               /\ used >= q.level_quantums[q.node[q.current_node].level]
                            THEN TRUE ELSE @]
    IN IF ~q.boost_enabled THEN w1
       ELSE IF q.boost_counter + 1 >= q.boost_interval
       THEN [mlfq_priority_boost(w1) EXCEPT !.mlfq.boost_counter = 0]
       ELSE [w1 EXCEPT !.mlfq.boost_counter = @ + 1]

mlfq_io_done(w, pid) ==
    IF ~w.mlfq.io_bonus_enabled THEN w
    ELSE LET node == mlfq_find_node(w.mlfq, pid)
         IN IF node = NULL THEN w
            ELSE LET w1 == [w EXCEPT !.mlfq.node[node].io_count = @ + 1]
                 IN IF w1.mlfq.node[node].io_count > 3 /\ w.stack.level > 0
                    THEN LET (* level - MLFQ_IO_BONUS_LEVELS in uint32_t wraps *)
                             (* above level when level is the smaller.       *)
                             new_level == IF w.stack.level < MLFQ_IO_BONUS_LEVELS
                                          THEN 0
                                          ELSE w.stack.level - MLFQ_IO_BONUS_LEVELS
                         IN [(IF new_level # w.stack.level
                              THEN mlfq_move_to_level(w1, pid, new_level)
                              ELSE w1)
                                EXCEPT !.mlfq.node[node].io_count = 0]
                    ELSE w1

mlfq_io_bonus_enable(w, enable) == [w EXCEPT !.mlfq.io_bonus_enabled = enable]

(* The checks of mlfq_validate on one level: every node carries a valid    *)
(* pid and the level of its queue, next and prev agree, and the walk       *)
(* counts as many nodes as the queue's count says.                         *)
MlfqLevelValid(q, level) ==
    LET ch == Chain(q.node, q.queue[level].head, NPROC + 1)
    IN /\ \A i \in 1..Len(ch) :
            /\ q.node[ch[i]].pid >= 0 /\ q.node[ch[i]].pid < NPROC
            /\ q.node[ch[i]].level = level
            /\ q.node[ch[i]].next # NULL => q.node[q.node[ch[i]].next].prev = ch[i]
       /\ Len(ch) <= NPROC
       /\ Len(ch) = q.queue[level].count

mlfq_validate(q) == \A level \in MlfqLevels : MlfqLevelValid(q, level)

mlfq_get_level(w, pid) ==
    IF mlfq_find_node(w.mlfq, pid) = NULL THEN 0 - 1 ELSE w.stack.level

(* ---------------------------------------------------------------------- *)
(* scheduler.c                                                             *)
(* ---------------------------------------------------------------------- *)
(* scheduler_type_t.  SCHEDULER_UNKNOWN stands for every value that is not *)
(* a case of the switch statements of scheduler_init and scheduler_switch. *)
SchedTypes ==
    {"SCHEDULER_ROUND_ROBIN", "SCHEDULER_PRIORITY", "SCHEDULER_LOTTERY",
     "SCHEDULER_CFS", "SCHEDULER_EDF", "SCHEDULER_MLFQ"}
(* The types handed to scheduler_init and scheduler_switch; the multi-level *)
(* feedback queue is driven through its own interface (SpecMLFQ).          *)
SchedTypeArgs == (SchedTypes \ {"SCHEDULER_MLFQ"}) \cup {"SCHEDULER_UNKNOWN"}

SYSERR == 0 - 1
OK == 0 + 1

(* The operation that the mainline code is inside of when it can be        *)
(* interrupted: none, between operations.                                  *)
NoCall == [op |-> "none"]

(* The framework's globals before scheduler_init, with the process table   *)
(* of the kernel (currpid, pstate, pprio).  The statistics counters are    *)
(* only reported, never read by a scheduling decision, and are left out;   *)
(* so is the generic ready_queue, which is used only while                 *)
(* current_scheduler is NULL or lacks enqueue/dequeue.                     *)
KernStatic ==
    [current_scheduler |-> "NULL", sched_policy |-> "SCHEDULER_PRIORITY",
     sched_initialized |-> FALSE, need_resched |-> FALSE,
     current_quantum |-> DEFAULT_QUANTUM, system_ticks |-> 0,
     currpid |-> 0,
     pstate |-> [p \in Pids |-> IF p = 0 THEN "PR_CURR" ELSE "PR_READY"],
     pprio |-> [p \in Pids |-> PRIORITY_DEFAULT],
     ctx |-> FALSE, call |-> NoCall]

(* The case labels shared by scheduler_init and scheduler_switch: the      *)
(* policy's init, then current_scheduler = its ops.                        *)
PolicyInit(w, type) ==
    CASE type = "SCHEDULER_ROUND_ROBIN" ->
            [round_robin_init(w) EXCEPT !.k.current_scheduler = "rr_ops"]
      [] type = "SCHEDULER_PRIORITY" ->
            [priority_init(w) EXCEPT !.k.current_scheduler = "prio_ops"]
      [] type = "SCHEDULER_LOTTERY" ->
            [lottery_init(w) EXCEPT !.k.current_scheduler = "lottery_ops"]
      [] type = "SCHEDULER_CFS" ->
            [cfs_init(w) EXCEPT !.k.current_scheduler = "cfs_ops"]
      [] type = "SCHEDULER_EDF" ->
            [realtime_init(w) EXCEPT !.k.current_scheduler = "realtime_ops"]
      [] type = "SCHEDULER_MLFQ" ->
            [mlfq_init(w) EXCEPT !.k.current_scheduler = "mlfq_ops"]

(* Calls through the operations table of current_scheduler.                *)
OpsShutdown(w) ==
    CASE w.k.current_scheduler = "rr_ops" -> round_robin_shutdown(w)
      [] w.k.current_scheduler = "prio_ops" -> priority_shutdown(w)
      [] w.k.current_scheduler = "lottery_ops" -> lottery_shutdown(w)
      [] w.k.current_scheduler = "cfs_ops" -> cfs_shutdown(w)
      [] w.k.current_scheduler = "realtime_ops" -> realtime_shutdown(w)
      [] w.k.current_scheduler = "mlfq_ops" -> mlfq_shutdown(w)
      [] OTHER -> w

OpsSchedule(w) ==
    CASE w.k.current_scheduler = "rr_ops" -> round_robin_schedule(w)
      [] w.k.current_scheduler = "prio_ops" -> priority_schedule(w)
      [] w.k.current_scheduler = "lottery_ops" -> lottery_schedule(w)
      [] w.k.current_scheduler = "cfs_ops" -> cfs_schedule(w)
      [] w.k.current_scheduler = "realtime_ops" -> realtime_schedule(w)
      [] w.k.current_scheduler = "mlfq_ops" -> mlfq_schedule(w)
      [] OTHER -> w

OpsYield(w, round) ==
    CASE w.k.current_scheduler = "rr_ops" -> round_robin_yield(w)
      [] w.k.current_scheduler = "prio_ops" -> priority_yield(w)
      [] w.k.current_scheduler = "lottery_ops" -> lottery_yield(w, round)
      [] w.k.current_scheduler = "cfs_ops" -> cfs_yield(w)
      [] w.k.current_scheduler = "realtime_ops" -> realtime_yield(w)
      [] w.k.current_scheduler = "mlfq_ops" -> mlfq_yield(w)
      [] OTHER -> w

OpsPreempt(w) ==
    CASE w.k.current_scheduler = "rr_ops" -> round_robin_preempt(w)
      [] w.k.current_scheduler = "prio_ops" -> priority_preempt(w)
      [] w.k.current_scheduler = "lottery_ops" -> lottery_preempt(w)
      [] w.k.current_scheduler = "cfs_ops" -> cfs_preempt(w)
      [] w.k.current_scheduler = "realtime_ops" -> realtime_preempt(w)
      [] w.k.current_scheduler = "mlfq_ops" -> mlfq_preempt(w)
      [] OTHER -> w

OpsEnqueue(w, pid) ==
    CASE w.k.current_scheduler = "rr_ops" -> round_robin_enqueue(w, pid)
      [] w.k.current_scheduler = "prio_ops" -> priority_enqueue(w, pid)
      [] w.k.current_scheduler = "lottery_ops" -> lottery_enqueue(w, pid)
      [] w.k.current_scheduler = "cfs_ops" -> cfs_enqueue(w, pid)
      [] w.k.current_scheduler = "realtime_ops" -> realtime_enqueue(w, pid)
      [] w.k.current_scheduler = "mlfq_ops" -> mlfq_enqueue(w, pid)
      [] OTHER -> w

OpsDequeue(w, pid) ==
    CASE w.k.current_scheduler = "rr_ops" -> round_robin_dequeue(w, pid)
      [] w.k.current_scheduler = "prio_ops" -> priority_dequeue(w, pid)
      [] w.k.current_scheduler = "lottery_ops" -> lottery_dequeue(w, pid)
      [] w.k.current_scheduler = "cfs_ops" -> cfs_dequeue(w, pid)
      [] w.k.current_scheduler = "realtime_ops" -> realtime_dequeue(w, pid)
      [] w.k.current_scheduler = "mlfq_ops" -> mlfq_dequeue(w, pid)
      [] OTHER -> w

OpsTick(w) ==
    CASE w.k.current_scheduler = "rr_ops" -> round_robin_tick(w)
      [] w.k.current_scheduler = "prio_ops" -> priority_tick(w)
      [] w.k.current_scheduler = "lottery_ops" -> lottery_tick(w)
      [] w.k.current_scheduler = "cfs_ops" -> cfs_tick(w)
      [] w.k.current_scheduler = "realtime_ops" -> realtime_tick(w)
      [] w.k.current_scheduler = "mlfq_ops" -> mlfq_tick(w)
      [] OTHER -> w

scheduler_init(w, type) ==
    [PolicyInit([w EXCEPT !.k.sched_policy =
                    IF type \in SchedTypes THEN type ELSE "SCHEDULER_PRIORITY"],
                IF type \in SchedTypes THEN type ELSE "SCHEDULER_PRIORITY")
        EXCEPT !.k.sched_initialized = TRUE]

scheduler_shutdown(w) ==
    [OpsShutdown(w) EXCEPT !.k.sched_initialized = FALSE]

(* Returns [w, r]: the world and the status.                               *)
scheduler_switch(w, type) ==
    Bind(OpsShutdown(w),
         LAMBDA w1 :
            IF type \in SchedTypes
            THEN [w |-> [PolicyInit(w1, type) EXCEPT !.k.sched_policy = type],
                  r |-> OK]
            ELSE [w |-> w1, r |-> SYSERR])

(* schedule() without "need_resched = false".                              *)
schedule_keep_flag(w) ==
    IF ~w.k.sched_initialized \/ w.k.current_scheduler = "NULL" THEN w
    ELSE OpsSchedule(w)

schedule(w) ==
    IF ~w.k.sched_initialized \/ w.k.current_scheduler = "NULL" THEN w
    ELSE OpsSchedule([w EXCEPT !.k.need_resched = FALSE])

resched(w) == schedule([w EXCEPT !.k.need_resched = TRUE])

yield(w, round) == OpsYield(w, round)

preempt(w) == OpsPreempt(w)

(* setpriority without the test for a free process-table entry.            *)
setpriority_of_free(w, pid, priority) ==
    IF pid < 0 \/ pid >= NPROC THEN [w |-> w, r |-> SYSERR]
    ELSE LET p == IF priority > PRIORITY_MAX THEN PRIORITY_MAX ELSE priority
         IN [w |-> Bind(IF w.k.current_scheduler = "prio_ops"
                        THEN priority_set(w, pid, p)
                        ELSE [w EXCEPT !.k.pprio[pid] = p],
                        LAMBDA w1 : IF w1.k.pstate[pid] = "PR_READY"
                                    THEN resched(w1) ELSE w1),
             r |-> w.k.pprio[pid]]

(* Returns [w, r]: the world and the old priority or SYSERR.  Only the     *)
(* priority policy has a set_priority operation.                           *)
setpriority(w, pid, priority) ==
    IF pid < 0 \/ pid >= NPROC THEN [w |-> w, r |-> SYSERR]
    ELSE IF w.k.pstate[pid] = "PR_FREE" THEN [w |-> w, r |-> SYSERR]
    ELSE LET p == IF priority > PRIORITY_MAX THEN PRIORITY_MAX ELSE priority
         IN [w |-> Bind(IF w.k.current_scheduler = "prio_ops"
                        THEN priority_set(w, pid, p)
                        ELSE [w EXCEPT !.k.pprio[pid] = p],
                        LAMBDA w1 : IF w1.k.pstate[pid] = "PR_READY"
                                    THEN resched(w1) ELSE w1),
             r |-> w.k.pprio[pid]]

getpriority(w, pid) ==
    IF pid < 0 \/ pid >= NPROC THEN SYSERR
    ELSE IF w.k.pstate[pid] = "PR_FREE" THEN SYSERR
    ELSE IF w.k.current_scheduler = "prio_ops" THEN priority_get(w, pid)
    ELSE w.k.pprio[pid]

(* Only round-robin has a set_quantum operation.                           *)
sched_set_quantum(w, quantum) ==
    LET q1 == IF quantum < MIN_QUANTUM THEN MIN_QUANTUM ELSE quantum
        q2 == IF q1 > MAX_QUANTUM THEN MAX_QUANTUM ELSE q1
        w1 == [w EXCEPT !.k.current_quantum = q2]
    IN IF w.k.current_scheduler = "rr_ops" THEN round_robin_set_quantum(w1, q2) ELSE w1

sched_tick(w) == OpsTick([w EXCEPT !.k.system_ticks = @ + 1])

sched_ready(w, pid) ==
    IF pid < 0 \/ pid >= NPROC THEN w ELSE OpsEnqueue(w, pid)

sched_block(w, pid) ==
    IF pid < 0 \/ pid >= NPROC THEN w
    ELSE Bind(OpsDequeue(w, pid),
              LAMBDA w1 : IF pid = w1.k.currpid THEN resched(w1) ELSE w1)

sched_wakeup(w, pid) ==
    IF pid < 0 \/ pid >= NPROC THEN w
    ELSE Bind(OpsEnqueue([w EXCEPT !.k.pstate[pid] = "PR_READY"], pid),
              LAMBDA w1 : IF w1.k.pprio[pid] > w1.k.pprio[w1.k.currpid]
                          THEN [w1 EXCEPT !.k.need_resched = TRUE]
                          ELSE w1)

sched_exit(w, pid) ==
    IF pid < 0 \/ pid >= NPROC THEN w
    ELSE Bind(OpsDequeue(w, pid),
              LAMBDA w1 : IF pid = w1.k.currpid THEN resched(w1) ELSE w1)

(* ---------------------------------------------------------------------- *)
(* States and steps                                                        *)
(* ---------------------------------------------------------------------- *)
(* The globals at program start, before scheduler_init.                    *)
StaticWorld ==
    [k |-> KernStatic, rr |-> RRStatic, prio |-> PrioStatic, lot |-> LotStatic,
     cfs |-> CfsStatic, rt |-> RtStatic, mlfq |-> MlfqStatic,
     stack |-> [level |-> 0, word |-> 0]]

(* Pool slots are interchangeable: the program never compares, orders or   *)
(* prints node addresses.  States are therefore kept up to a renaming of   *)
(* the slots of each pool: the nodes of the linked structure first, in     *)
(* list order, then the free list in its order, then the slots that no     *)
(* pointer reaches.  The fields of a slot that no pointer reaches are never *)
(* read again, and those of a slot that only the free list reaches are     *)
(* overwritten by the allocator before they are read: both are cleared.    *)
RECURSIVE Dedup(_)
Dedup(s) ==
    IF s = <<>> THEN <<>>
    ELSE LET r == Dedup(SubSeq(s, 1, Len(s) - 1))
         IN IF \E i \in 1..Len(r) : r[i] = s[Len(s)] THEN r ELSE Append(r, s[Len(s)])

(* All slots 0..n-1, those of s first.                                     *)
SlotOrder(s, n) == Dedup(SelectSeq(s, LAMBDA x : x # NULL) \o [i \in 1..n |-> i - 1])

NewSlot(ord, p) ==
    IF p = NULL THEN NULL ELSE (CHOOSE j \in 1..Len(ord) : ord[j] = p) - 1

(* The slots reached from S through succ.                                  *)
RECURSIVE Closure(_, _, _)
Closure(succ, S, fuel) ==
    IF fuel = 0 THEN S
    ELSE Closure(succ, S \cup UNION {succ[x] : x \in S}, fuel - 1)

SeqSet(s) == {s[i] : i \in 1..Len(s)}

RRCanon(q) ==
    LET succ == [i \in DOMAIN q.node |-> {q.node[i].next, q.node[i].prev} \ {NULL}]
        live == Closure(succ, {q.head, q.current} \ {NULL}, NPROC)
        fr == Chain(q.node, q.free, NPROC)
        ord == SlotOrder(Chain(q.node, q.head, NPROC) \o <<q.current>> \o fr, NPROC)
    IN [q EXCEPT !.head = NewSlot(ord, q.head), !.current = NewSlot(ord, q.current),
                 !.free = NewSlot(ord, q.free),
                 !.node = [j \in DOMAIN q.node |->
                    LET o == ord[j + 1] IN
                    IF o \in live
                    THEN [q.node[o] EXCEPT !.next = NewSlot(ord, @),
                                           !.prev = NewSlot(ord, @)]
                    ELSE IF o \in SeqSet(fr)
                    THEN RRFreeNode(NewSlot(ord, q.node[o].next))
                    ELSE RRFreeNode(NULL)]]

PrioCanon(q) ==
    LET ch == Chain(q.node, q.queue, NPROC)
        fr == Chain(q.node, q.free, NPROC)
        ord == SlotOrder(ch \o fr, NPROC)
    IN [q EXCEPT !.queue = NewSlot(ord, q.queue), !.free = NewSlot(ord, q.free),
                 !.node = [j \in DOMAIN q.node |->
                    LET o == ord[j + 1] IN
                    IF o \in SeqSet(ch)
                    THEN [q.node[o] EXCEPT !.next = NewSlot(ord, @)]
                    ELSE IF o \in SeqSet(fr)
                    THEN PrioFreeNode(NewSlot(ord, q.node[o].next))
                    ELSE PrioFreeNode(NULL)]]

LotCanon(q) ==
    LET ch == Chain(q.entry, q.pool, LotPoolSize)
        fr == Chain(q.entry, q.free, LotPoolSize)
        ord == SlotOrder(ch \o fr, LotPoolSize)
    IN [q EXCEPT !.pool = NewSlot(ord, q.pool), !.free = NewSlot(ord, q.free),
                 !.entry = [j \in DOMAIN q.entry |->
                    LET o == ord[j + 1] IN
                    IF o \in SeqSet(ch)
                    THEN [q.entry[o] EXCEPT !.next = NewSlot(ord, @)]
                    ELSE IF o \in SeqSet(fr)
                    THEN LotFreeEntry(NewSlot(ord, q.entry[o].next))
                    ELSE LotFreeEntry(NULL)]]

CfsCanon(q) ==
    LET succ == [i \in DOMAIN q.task |-> {q.task[i].next, q.task[i].prev} \ {NULL}]
        live == Closure(succ, {q.tasks_timeline, q.leftmost, q.curr} \ {NULL},
                        CfsPoolSize)
        fr == Chain(q.task, q.free, CfsPoolSize)
        ord == SlotOrder(Chain(q.task, q.tasks_timeline, CfsPoolSize)
                         \o <<q.leftmost, q.curr>> \o fr, CfsPoolSize)
    IN [q EXCEPT !.tasks_timeline = NewSlot(ord, q.tasks_timeline),
                 !.leftmost = NewSlot(ord, q.leftmost),
                 !.curr = NewSlot(ord, q.curr),
                 !.free = NewSlot(ord, q.free),
                 !.task = [j \in DOMAIN q.task |->
                    LET o == ord[j + 1] IN
                    IF o \in live
                    THEN [q.task[o] EXCEPT !.next = NewSlot(ord, @),
                                           !.prev = NewSlot(ord, @)]
                    ELSE IF o \in SeqSet(fr)
                    THEN CfsZeroTask(NewSlot(ord, q.task[o].next))
                    ELSE CfsZeroTask(NULL)]]

RtCanon(r) ==
    LET succ == [i \in DOMAIN r.task |-> {r.task[i].next} \ {NULL}]
        live == Closure(succ, {r.all_tasks, r.ready_queue, r.current_task} \ {NULL},
                        RtPoolSize)
        fr == Chain(r.task, r.free, RtPoolSize)
        ord == SlotOrder(Chain(r.task, r.all_tasks, RtPoolSize)
                         \o Chain(r.task, r.ready_queue, RtPoolSize)
                         \o <<r.current_task>> \o fr, RtPoolSize)
    IN [r EXCEPT !.all_tasks = NewSlot(ord, r.all_tasks),
                 !.ready_queue = NewSlot(ord, r.ready_queue),
                 !.current_task = NewSlot(ord, r.current_task),
                 !.free = NewSlot(ord, r.free),
                 !.task = [j \in DOMAIN r.task |->
                    LET o == ord[j + 1] IN
                    IF o \in live
                    THEN [r.task[o] EXCEPT !.next = NewSlot(ord, @)]
                    ELSE IF o \in SeqSet(fr)
                    THEN RtZeroTask(NewSlot(ord, r.task[o].next))
                    ELSE RtZeroTask(NULL)]]

MlfqCanon(q) ==
    LET ch == MlfqWalk(q, 0)
        fr == Chain(q.node, q.free, NPROC)
        ord == SlotOrder(ch \o fr, NPROC)
    IN [q EXCEPT !.free = NewSlot(ord, q.free),
                 !.current_node = NewSlot(ord, q.current_node),
                 !.queue = [l \in MlfqLevels |->
                    [q.queue[l] EXCEPT !.head = NewSlot(ord, @),
                                       !.tail = NewSlot(ord, @)]],
                 !.node = [j \in DOMAIN q.node |->
                    LET o == ord[j + 1] IN
                    IF o \in SeqSet(ch)
                    THEN [q.node[o] EXCEPT !.next = NewSlot(ord, @),
                                           !.prev = NewSlot(ord, @)]
                    ELSE IF o \in SeqSet(fr)
                    THEN MlfqFreeNode(NewSlot(ord, q.node[o].next))
                    ELSE MlfqFreeNode(NULL)]]

(* The state in which an operation leaves the program.                     *)
(* The static data of a policy other than current_scheduler is reached     *)
(* only through that policy's init, which overwrites all of it: it is      *)
(* kept at its load-time value.                                            *)
Apply(w) ==
    /\ kern' = w.k
    /\ rr' = IF w.k.current_scheduler # "rr_ops" THEN RRStatic
             ELSE IF w.rr = rr THEN rr ELSE RRCanon(w.rr)
    /\ prio' = IF w.k.current_scheduler # "prio_ops" THEN PrioStatic
               ELSE IF w.prio = prio THEN prio ELSE PrioCanon(w.prio)
    /\ lot' = IF w.k.current_scheduler # "lottery_ops" THEN LotStatic
              ELSE IF w.lot = lot THEN lot ELSE LotCanon(w.lot)
    /\ cfs' = IF w.k.current_scheduler # "cfs_ops" THEN CfsStatic
              ELSE IF w.cfs = cfs THEN cfs ELSE CfsCanon(w.cfs)
    /\ rt' = IF w.k.current_scheduler # "realtime_ops" THEN RtStatic
             ELSE IF w.rt = rt THEN rt ELSE RtCanon(w.rt)
    /\ mlfq' = IF w.k.current_scheduler # "mlfq_ops" THEN MlfqStatic
               ELSE IF w.mlfq = mlfq THEN mlfq ELSE MlfqCanon(w.mlfq)

(* The state after scheduler_init(type).                                   *)
InitOf(type) ==
    LET w == scheduler_init(StaticWorld, type)
    IN /\ kern = w.k
       /\ rr = w.rr
       /\ prio = w.prio
       /\ lot = w.lot
       /\ cfs = w.cfs
       /\ rt = w.rt
       /\ mlfq = w.mlfq

(* A list walk that does not return leaves the program stuck.              *)
Running == ~rt.hung

(* Arguments of the calls.                                                 *)
PrioArgs == {PRIORITY_MAX + 1}
(* Pids whose priority is changed directly: an invalid pid on each side and  *)
(* one process.                                                            *)
PrioSetPids == {NULL, 1, NPROC}
PrioBoostPids == {NULL, 0, NPROC}
QuantumArgs == 0..MaxQuantumArg
AgingIntervalArgs == {1}

(* ---------------------------------------------------------------------- *)
(* Round-robin driven through its own interface                            *)
(* ---------------------------------------------------------------------- *)
RREnqueue == \E pid \in PidArgs : Running /\ Apply(round_robin_enqueue(Enter, pid))
RRDequeue == \E pid \in PidArgs : Running /\ Apply(round_robin_dequeue(Enter, pid))
RRRotate == Running /\ Apply(round_robin_rotate(Enter))
RRSchedule == Running /\ Apply(round_robin_schedule(Enter))
RRYield == Running /\ Apply(round_robin_yield(Enter))
RRPreempt == Running /\ Apply(round_robin_preempt(Enter))
RRSetQuantum ==
    \E quantum \in QuantumArgs : Running /\ Apply(round_robin_set_quantum(Enter, quantum))
RRTick ==
    /\ Running
    /\ kern.system_ticks < MaxTicks
    /\ Apply(round_robin_tick([Enter EXCEPT !.k.system_ticks = @ + 1]))
RRShutdown == Running /\ Apply(round_robin_shutdown(Enter))
RRInit == Running /\ Apply(round_robin_init(Enter))

InitRR == InitOf("SCHEDULER_ROUND_ROBIN")

NextRR ==
    \/ RREnqueue
    \/ RRDequeue
    \/ RRRotate
    \/ RRSchedule
    \/ RRYield
    \/ RRPreempt
    \/ RRSetQuantum
    \/ RRTick
    \/ RRShutdown
    \/ RRInit

SpecRR == InitRR /\ [][NextRR]_vars

(* ---------------------------------------------------------------------- *)
(* Round-robin rotation: processes are enqueued before the first tick;    *)
(* schedule() dispatches the first of them and is then called whenever    *)
(* need_resched is set; the policy is ticked otherwise.                    *)
(* ---------------------------------------------------------------------- *)

MaxRotTicks == 40
RotQuantumArgs == {3}

(* The pids of the ring in enqueue order, from the head.                   *)
RotOrder(q) ==
    LET ring == Chain(q.node, q.head, q.count)
    IN [i \in 1..Len(ring) |-> q.node[ring[i]].pid]

RotSetQuantum ==
    \E quantum \in RotQuantumArgs :
        /\ Running
        /\ rr.count = 0
        /\ Apply(round_robin_set_quantum(Enter, quantum))
RotEnqueue ==
    \E pid \in Pids :
        /\ Running
        /\ kern.system_ticks = 0
        /\ Apply(round_robin_enqueue(Enter, pid))
RotSchedule ==
    /\ Running
    /\ rr.count >= 2
    /\ \/ kern.need_resched
       \/ kern.system_ticks = 0 /\ kern.currpid # round_robin_pick_next(World)
    /\ Apply(schedule(Enter))
RotTick ==
    /\ Running
    /\ rr.count >= 2
    /\ ~kern.need_resched
    /\ kern.currpid = round_robin_pick_next(World)
    /\ kern.system_ticks < MaxRotTicks
    /\ Apply(round_robin_tick([Enter EXCEPT !.k.system_ticks = @ + 1]))

NextRot ==
    \/ RotSetQuantum
    \/ RotEnqueue
    \/ RotSchedule
    \/ RotTick

SpecRot == InitRR /\ [][NextRot]_vars

(* ---------------------------------------------------------------------- *)
(* The priority policy driven through its own interface                    *)
(* ---------------------------------------------------------------------- *)
PrioEnqueue == \E pid \in PidArgs : Running /\ Apply(priority_enqueue(Enter, pid))
PrioDequeue == \E pid \in PidArgs : Running /\ Apply(priority_dequeue(Enter, pid))
PrioSchedule == Running /\ Apply(priority_schedule(Enter))
PrioYield == Running /\ Apply(priority_yield(Enter))
PrioPreempt == Running /\ Apply(priority_preempt(Enter))
PrioSet ==
    \E pid \in PrioSetPids, priority \in PrioArgs :
        Running /\ Apply(priority_set(Enter, pid, priority))
PrioBoost ==
    \E pid \in PrioBoostPids :
        /\ Running
        /\ priority_get(Enter, pid) < PRIORITY_DEFAULT + MaxBoost
        /\ Apply(priority_boost(Enter, pid))
PrioDecay == \E pid \in PrioBoostPids : Running /\ Apply(priority_decay(Enter, pid))
PrioReset == \E pid \in PrioBoostPids : Running /\ Apply(priority_reset(Enter, pid))
PrioAgingEnable ==
    \E enable \in BOOLEAN : Running /\ Apply(priority_aging_enable(Enter, enable))
PrioSetAgingInterval ==
    \E ticks \in AgingIntervalArgs :
        Running /\ Apply(priority_set_aging_interval(Enter, ticks))
PrioTick == Running /\ prio.ticks < MaxTicks /\ Apply(priority_tick(Enter))

InitPrio == InitOf("SCHEDULER_PRIORITY")

NextPrio ==
    \/ PrioEnqueue
    \/ PrioDequeue
    \/ PrioSchedule
    \/ PrioYield
    \/ PrioPreempt
    \/ PrioSet
    \/ PrioBoost
    \/ PrioDecay
    \/ PrioReset
    \/ PrioAgingEnable
    \/ PrioSetAgingInterval
    \/ PrioTick

SpecPrio == InitPrio /\ [][NextPrio]_vars

(* ---------------------------------------------------------------------- *)
(* SpecSat: the priority policy with process-table priorities just below   *)
(* PRIORITY_MAX, so that aging, starvation boosts and priority_boost reach *)
(* the maximum.                                                            *)
(* ---------------------------------------------------------------------- *)

MaxSatTicks == 3
SatPriority == PRIORITY_MAX - 2
SatPidArgs == {0, 1}
SatSetArgs == {PRIORITY_MAX - 3, PRIORITY_MAX + 1}

InitSat ==
    LET w == scheduler_init([StaticWorld EXCEPT
                                !.k.pprio = [p \in Pids |-> SatPriority]],
                            "SCHEDULER_PRIORITY")
    IN /\ kern = w.k
       /\ rr = w.rr
       /\ prio = w.prio
       /\ lot = w.lot
       /\ cfs = w.cfs
       /\ rt = w.rt
       /\ mlfq = w.mlfq

SatEnqueue == \E pid \in SatPidArgs : Running /\ Apply(priority_enqueue(Enter, pid))
SatSchedule == Running /\ Apply(priority_schedule(Enter))
SatSet ==
    \E priority \in SatSetArgs : Running /\ Apply(priority_set(Enter, 1, priority))
SatBoost == \E pid \in SatPidArgs : Running /\ Apply(priority_boost(Enter, pid))
SatDecay == \E pid \in SatPidArgs : Running /\ Apply(priority_decay(Enter, pid))
SatSetAgingInterval ==
    \E ticks \in AgingIntervalArgs :
        Running /\ Apply(priority_set_aging_interval(Enter, ticks))
SatTick == Running /\ prio.ticks < MaxSatTicks /\ Apply(priority_tick(Enter))

NextSat ==
    \/ SatEnqueue
    \/ SatSchedule
    \/ SatSet
    \/ SatBoost
    \/ SatDecay
    \/ SatSetAgingInterval
    \/ SatTick

SpecSat == InitSat /\ [][NextSat]_vars

(* ---------------------------------------------------------------------- *)
(* The lottery policy driven through its own interface                     *)
(* ---------------------------------------------------------------------- *)
LotPidArgs == {NULL, 0, 1}
(* The process whose tickets are changed directly, and one that is never   *)
(* enqueued.                                                               *)
TicketPidArgs == {0, NPROC - 1}
TicketArgs == {LOTTERY_MAX_TICKETS + 1}
(* Fractions num/den handed to lottery_compensate (1/fraction - 1 is exact  *)
(* in single precision for both) and factors handed to lottery_inflate.    *)
FractionArgs == {<<0, 1>>, <<1, 2>>}
FactorArgs == {<<0, 1>>, <<1, 1>>}
RoundArgs == {0, 1}
(* A lottery may be drawn while fewer than MaxLotteries have been.         *)
MayDraw == lot.total_lotteries < MaxLotteries

LotEnqueue == \E pid \in LotPidArgs : Running /\ Apply(lottery_enqueue(Enter, pid))
LotDequeue == \E pid \in LotPidArgs : Running /\ Apply(lottery_dequeue(Enter, pid))
LotSchedule == Running /\ MayDraw /\ Apply(lottery_schedule(Enter))
LotYield ==
    \E round \in RoundArgs : Running /\ MayDraw /\ Apply(lottery_yield(Enter, round))
LotPreempt == Running /\ MayDraw /\ Apply(lottery_preempt(Enter))
LotTick ==
    /\ Running
    /\ MayDraw
    /\ lot.time_remaining = 0 \/ lot.time_remaining > DEFAULT_QUANTUM - MaxLotTicks
    /\ Apply(lottery_tick(Enter))
LotSetTickets ==
    \E pid \in TicketPidArgs, tickets \in TicketArgs :
        Running /\ Apply(lottery_set_tickets(Enter, pid, tickets))
LotAddTickets ==
    \E pid \in TicketPidArgs :
        Running /\ Apply(lottery_add_tickets(Enter, pid, LOTTERY_MAX_TICKETS))
LotRemoveTickets ==
    \E pid \in TicketPidArgs :
        Running /\ Apply(lottery_remove_tickets(Enter, pid, LOTTERY_MAX_TICKETS))
LotTransferTickets ==
    \E from_pid \in TicketPidArgs, to_pid \in TicketPidArgs :
        Running /\ Apply(lottery_transfer_tickets(Enter, from_pid, to_pid,
                                                  LOTTERY_MAX_TICKETS).w)
LotCompensate ==
    \E pid \in TicketPidArgs, f \in FractionArgs :
        /\ Running
        /\ lot.total_tickets - LotSumTickets(lot.entry, LotChain(lot)) <= MaxDrift
        /\ Apply(lottery_compensate(Enter, pid, f[1], f[2], 0))
LotCompensationEnable ==
    \E enable \in BOOLEAN : Running /\ Apply(lottery_compensation_enable(Enter, enable))
LotInflate ==
    \E f \in FactorArgs : Running /\ Apply(lottery_inflate(Enter, f[1], f[2]))

InitLottery == InitOf("SCHEDULER_LOTTERY")

NextLottery ==
    \/ LotEnqueue
    \/ LotDequeue
    \/ LotSchedule
    \/ LotYield
    \/ LotPreempt
    \/ LotTick
    \/ LotSetTickets
    \/ LotAddTickets
    \/ LotRemoveTickets
    \/ LotTransferTickets
    \/ LotCompensate
    \/ LotCompensationEnable
    \/ LotInflate

SpecLottery == InitLottery /\ [][NextLottery]_vars

(* ---------------------------------------------------------------------- *)
(* Ticket transfers between participants whose base tickets are at and    *)
(* near the ends of [LOTTERY_MIN_TICKETS, LOTTERY_MAX_TICKETS].            *)
(* ---------------------------------------------------------------------- *)

(* Processes 0 and 1 take part; the last process never does.               *)
TransferPidArgs == {0, 1}
TransferEndArgs == {0, 1, NPROC - 1}
(* Arguments of lottery_set_tickets and the bases they leave.              *)
TransferTicketArgs == {0, 3, LOTTERY_MAX_TICKETS - 2, LOTTERY_MAX_TICKETS + 1}
TransferBases ==
    {LOTTERY_MIN_TICKETS, 3, LOTTERY_DEFAULT_TICKETS, LOTTERY_MAX_TICKETS - 2,
     LOTTERY_MAX_TICKETS}
TransferAmountArgs == {0, 2, LOTTERY_MAX_TICKETS}

(* Transfers are taken from states in which every participant's base is    *)
(* one of TransferBases.                                                   *)
TransferBasesReset ==
    \A e \in SeqSet(LotChain(lot)) : lot.entry[e].base_tickets \in TransferBases

TransferEnqueue ==
    \E pid \in TransferPidArgs : Running /\ Apply(lottery_enqueue(Enter, pid))
TransferDequeue ==
    \E pid \in TransferPidArgs : Running /\ Apply(lottery_dequeue(Enter, pid))
TransferSetTickets ==
    \E pid \in TransferPidArgs, tickets \in TransferTicketArgs :
        Running /\ Apply(lottery_set_tickets(Enter, pid, tickets))
TransferStep(from_pid, to_pid, tickets) ==
    /\ Running
    /\ TransferBasesReset
    /\ Apply(lottery_transfer_tickets(Enter, from_pid, to_pid, tickets).w)
TransferTickets ==
    \E from_pid \in TransferEndArgs, to_pid \in TransferEndArgs,
       tickets \in TransferAmountArgs : TransferStep(from_pid, to_pid, tickets)

NextTransfer ==
    \/ TransferEnqueue
    \/ TransferDequeue
    \/ TransferSetTickets
    \/ TransferTickets

SpecTransfer == InitLottery /\ [][NextTransfer]_vars

(* ---------------------------------------------------------------------- *)
(* The CFS policy driven through its own interface                         *)
(* ---------------------------------------------------------------------- *)
CfsPidArgs == {NULL, 0, 1}
NiceArgs == {CFS_NICE_MIN - 1, CFS_NICE_MAX + 1}

CfsEnqueue ==
    \E pid \in CfsPidArgs :
        Running /\ cfs.min_vruntime < MaxMinVruntime /\ Apply(cfs_enqueue(Enter, pid))
CfsDequeue == \E pid \in CfsPidArgs : Running /\ Apply(cfs_dequeue(Enter, pid))
CfsSchedule == Running /\ Apply(cfs_schedule(Enter))
CfsYield == Running /\ Apply(cfs_yield(Enter))
CfsPreempt == Running /\ Apply(cfs_preempt(Enter))
CfsSleep == \E pid \in CfsPidArgs : Running /\ Apply(cfs_sleep(Enter, pid))
CfsWakeup == \E pid \in CfsPidArgs : Running /\ Apply(cfs_wakeup(Enter, pid))
CfsSetNice ==
    \E pid \in CfsPidArgs, nice \in NiceArgs :
        Running /\ Apply(cfs_set_nice(Enter, pid, nice))
CfsTick == Running /\ cfs.system_clock < MaxClock /\ Apply(cfs_tick(Enter))

InitCFS == InitOf("SCHEDULER_CFS")

NextCFS ==
    \/ CfsEnqueue
    \/ CfsDequeue
    \/ CfsSchedule
    \/ CfsYield
    \/ CfsPreempt
    \/ CfsSleep
    \/ CfsWakeup
    \/ CfsSetNice
    \/ CfsTick

SpecCFS == InitCFS /\ [][NextCFS]_vars

(* ---------------------------------------------------------------------- *)
(* The real-time policy driven through its own interface                   *)
(* ---------------------------------------------------------------------- *)
RtPidArgs == {0, 1}
(* The process whose task is created and parameterised explicitly; the     *)
(* other one only ever gets the defaults of realtime_enqueue.              *)
RtParamPidArgs == {0}
RtParamArgs ==
    {[period |-> 2, deadline |-> 1, wcet |-> 1, miss_policy |-> "CONTINUE"]}
RtAlgoArgs == {"EDF", "RMS"}

RtCreateTask ==
    \E pid \in RtParamPidArgs, params \in RtParamArgs :
        Running /\ Apply(realtime_create_task(Enter, pid, params).w)
RtSetParams ==
    \E pid \in RtParamPidArgs, params \in RtParamArgs :
        Running /\ Apply(realtime_set_params(Enter, pid, params).w)
RtEnqueue == \E pid \in RtPidArgs : Running /\ Apply(realtime_enqueue(Enter, pid))
RtDequeue == \E pid \in RtPidArgs : Running /\ Apply(realtime_dequeue(Enter, pid))
RtSetAlgorithm ==
    \E algo \in RtAlgoArgs : Running /\ Apply(realtime_set_algorithm(Enter, algo))
RtSchedule == Running /\ Apply(realtime_schedule(Enter))
RtYield == Running /\ Apply(realtime_yield(Enter))
RtPreempt == Running /\ Apply(realtime_preempt(Enter))
RtTick == Running /\ rt.system_time < MaxTime /\ Apply(realtime_tick(Enter))

InitRT == InitOf("SCHEDULER_EDF")

NextRT ==
    \/ RtCreateTask
    \/ RtSetParams
    \/ RtEnqueue
    \/ RtDequeue
    \/ RtSetAlgorithm
    \/ RtSchedule
    \/ RtYield
    \/ RtPreempt
    \/ RtTick

SpecRT == InitRT /\ [][NextRT]_vars

(* ---------------------------------------------------------------------- *)
(* The EDF scenario: three periodic tasks with deadline equal to period   *)
(* are created at time 0 and the clock is ticked EdfTicks times.          *)
(* ---------------------------------------------------------------------- *)

EdfTicks == 600
EdfPids == 0..2
EdfParamsOf(pid) ==
    CASE pid = 0 -> [period |-> 10, deadline |-> 10, wcet |-> 3, miss_policy |-> "NOTIFY"]
      [] pid = 1 -> [period |-> 15, deadline |-> 15, wcet |-> 5, miss_policy |-> "NOTIFY"]
      [] OTHER -> [period |-> 20, deadline |-> 20, wcet |-> 4, miss_policy |-> "NOTIFY"]

(* The pool slots that hold the task of pid.                               *)
EdfTasksOf(r, pid) ==
    {t \in DOMAIN r.task : r.task[t].pid = pid /\ r.task[t].params = EdfParamsOf(pid)}

EdfCreateTask ==
    \E pid \in EdfPids :
        /\ Running
        /\ rt.system_time = 0
        /\ EdfTasksOf(rt, pid) = {}
        /\ Apply(realtime_create_task(Enter, pid, EdfParamsOf(pid)).w)
EdfTick ==
    /\ Running
    /\ rt.task_count = Cardinality(EdfPids)
    /\ rt.system_time < EdfTicks
    /\ Apply(realtime_tick(Enter))

NextEdf ==
    \/ EdfCreateTask
    \/ EdfTick

SpecEdf == InitRT /\ [][NextEdf]_vars

(* ---------------------------------------------------------------------- *)
(* The real-time scheduler over several ticks: tasks whose execution time *)
(* exceeds their relative deadline, so that a running task can miss it.   *)
(* Only EDF is selected.                                                   *)
(* ---------------------------------------------------------------------- *)

MaxRunTime == 3
RunPidArgs == {0, 1}
(* The parameters each process creates its task with, and the process     *)
(* whose parameters are changed afterwards.                                *)
RunParamsOf(pid) ==
    IF pid = 0 THEN [period |-> 5, deadline |-> 1, wcet |-> 4, miss_policy |-> "CONTINUE"]
    ELSE [period |-> 3, deadline |-> 2, wcet |-> 1, miss_policy |-> "NOTIFY"]
RunSetPidArgs == {0}
RunParamArgs == {RunParamsOf(pid) : pid \in RunPidArgs}

RunCreateTask ==
    \E pid \in RunPidArgs :
        Running /\ Apply(realtime_create_task(Enter, pid, RunParamsOf(pid)).w)
RunSetParams ==
    \E pid \in RunSetPidArgs, params \in RunParamArgs :
        Running /\ Apply(realtime_set_params(Enter, pid, params).w)
RunEnqueue ==
    \E pid \in RunPidArgs :
        /\ Running
        /\ rt_find_task(rt, pid) \notin {NULL, HUNG}
        /\ Apply(realtime_enqueue(Enter, pid))
RunSchedule == Running /\ Apply(realtime_schedule(Enter))
RunYield == Running /\ Apply(realtime_yield(Enter))
RunTick == Running /\ rt.system_time < MaxRunTime /\ Apply(realtime_tick(Enter))

NextRTRun ==
    \/ RunCreateTask
    \/ RunSetParams
    \/ RunEnqueue
    \/ RunSchedule
    \/ RunYield
    \/ RunTick

SpecRTRun == InitRT /\ [][NextRTRun]_vars

(* ---------------------------------------------------------------------- *)
(* The multi-level feedback queue driven through its own interface         *)
(* ---------------------------------------------------------------------- *)
(* mlfq_tick is explored while current_time_used and boost_counter are     *)
(* below MaxMlfqTicks; mlfq_yield and mlfq_io_done while the io_count of   *)
(* the queued nodes adds up to less than MaxMlfqIo (io_count grows without *)
(* bound on a node whose level is taken for 0).                            *)
MaxMlfqTicks == 1
MaxMlfqIo == 6
MlfqPidArgs == {NULL, 0, 1}
MlfqLevelArgs == {0, MLFQ_NUM_LEVELS}
MlfqIntervalArgs == {1}

RECURSIVE MlfqSumIo(_, _)
MlfqSumIo(node, ch) ==
    IF ch = <<>> THEN 0 ELSE node[ch[1]].io_count + MlfqSumIo(node, Tail(ch))

MlfqMayIo == MlfqSumIo(mlfq.node, MlfqWalk(mlfq, 0)) < MaxMlfqIo

MlfqEnqueue == \E pid \in MlfqPidArgs : Running /\ Apply(mlfq_enqueue(Enter, pid))
MlfqDequeue == \E pid \in MlfqPidArgs : Running /\ Apply(mlfq_dequeue(Enter, pid))
MlfqMoveToLevel ==
    \E pid \in MlfqPidArgs, level \in MlfqLevelArgs :
        Running /\ Apply(mlfq_move_to_level(Enter, pid, level))
MlfqDemote ==
    \E pid \in MlfqPidArgs, g \in MlfqGarbage : Running /\ Apply(mlfq_demote(Stack(g), pid))
MlfqPromote ==
    \E pid \in MlfqPidArgs, g \in MlfqGarbage : Running /\ Apply(mlfq_promote(Stack(g), pid))
MlfqSchedule == Running /\ Apply(mlfq_schedule(Enter))
MlfqYield == \E g \in MlfqGarbage : Running /\ MlfqMayIo /\ Apply(mlfq_yield(Stack(g)))
MlfqPreempt == \E g \in MlfqGarbage : Running /\ Apply(mlfq_preempt(Stack(g)))
MlfqPriorityBoost == Running /\ Apply(mlfq_priority_boost(Enter))
MlfqSetBoostInterval ==
    \E ticks \in MlfqIntervalArgs : Running /\ Apply(mlfq_set_boost_interval(Enter, ticks))
MlfqTick ==
    /\ Running
    /\ mlfq.current_time_used < MaxMlfqTicks
    /\ mlfq.boost_counter < MaxMlfqTicks
    /\ Apply(mlfq_tick(Enter))
MlfqIoDone ==
    \E pid \in MlfqPidArgs, g \in MlfqGarbage :
        Running /\ MlfqMayIo /\ Apply(mlfq_io_done(Stack(g), pid))

InitMLFQ == InitOf("SCHEDULER_MLFQ")

NextMLFQ ==
    \/ MlfqEnqueue
    \/ MlfqDequeue
    \/ MlfqMoveToLevel
    \/ MlfqDemote
    \/ MlfqPromote
    \/ MlfqSchedule
    \/ MlfqYield
    \/ MlfqPreempt
    \/ MlfqPriorityBoost
    \/ MlfqSetBoostInterval
    \/ MlfqTick
    \/ MlfqIoDone

SpecMLFQ == InitMLFQ /\ [][NextMLFQ]_vars

(* ---------------------------------------------------------------------- *)
(* A CPU-bound process alone in the multi-level feedback queue: it is     *)
(* enqueued at level 0, schedule() dispatches it and is then called       *)
(* whenever need_resched is set; the policy is ticked otherwise.           *)
(* ---------------------------------------------------------------------- *)

MaxDemoteTicks == 520
(* A priority that mlfq_enqueue maps to level 0.                           *)
DemotePriority == 75

InitDemote ==
    LET w == scheduler_init([StaticWorld EXCEPT
                                !.k.pprio = [p \in Pids |-> DemotePriority]],
                            "SCHEDULER_MLFQ")
    IN /\ kern = w.k
       /\ rr = w.rr
       /\ prio = w.prio
       /\ lot = w.lot
       /\ cfs = w.cfs
       /\ rt = w.rt
       /\ mlfq = w.mlfq

(* The processes in the queues.                                            *)
DemoteQueued(q) == {q.node[n].pid : n \in SeqSet(MlfqWalk(q, 0))}

DemoteEnqueue ==
    \E pid \in Pids \ {kern.currpid} :
        /\ Running
        /\ DemoteQueued(mlfq) = {}
        /\ Apply(mlfq_enqueue(Enter, pid))
DemoteSchedule ==
    /\ Running
    /\ DemoteQueued(mlfq) # {}
    /\ kern.need_resched \/ mlfq.current_node = NULL
    /\ Apply(schedule(Enter))
DemoteTick ==
    /\ Running
    /\ mlfq.current_node # NULL
    /\ ~kern.need_resched
    /\ kern.system_ticks < MaxDemoteTicks
    /\ Apply(mlfq_tick([Enter EXCEPT !.k.system_ticks = @ + 1]))

NextDemote ==
    \/ DemoteEnqueue
    \/ DemoteSchedule
    \/ DemoteTick

SpecDemote == InitDemote /\ [][NextDemote]_vars

(* ---------------------------------------------------------------------- *)
(* The priority boost of the multi-level feedback queue, driven by ticks  *)
(* ---------------------------------------------------------------------- *)

MaxBoostTicks == 4
BoostPidArgs == {0, 1}
BoostLevelArgs == {1, MLFQ_NUM_LEVELS - 1}
BoostIntervalArgs == {3}

BoostEnqueue == \E pid \in BoostPidArgs : Running /\ Apply(mlfq_enqueue(Enter, pid))
BoostMoveToLevel ==
    \E pid \in BoostPidArgs, level \in BoostLevelArgs :
        Running /\ Apply(mlfq_move_to_level(Enter, pid, level))
BoostSchedule == Running /\ Apply(mlfq_schedule(Enter))
BoostPreempt == \E g \in MlfqGarbage : Running /\ Apply(mlfq_preempt(Stack(g)))
BoostSetInterval ==
    \E ticks \in BoostIntervalArgs :
        Running /\ Apply(mlfq_set_boost_interval(Enter, ticks))
BoostEnable ==
    \E enable \in BOOLEAN : Running /\ Apply(mlfq_boost_enable(Enter, enable))
BoostTick ==
    /\ Running
    /\ kern.system_ticks < MaxBoostTicks
    /\ Apply(mlfq_tick([Enter EXCEPT !.k.system_ticks = @ + 1]))

NextBoost ==
    \/ BoostEnqueue
    \/ BoostMoveToLevel
    \/ BoostSchedule
    \/ BoostPreempt
    \/ BoostSetInterval
    \/ BoostEnable
    \/ BoostTick

SpecBoost == InitMLFQ /\ [][NextBoost]_vars

(* ---------------------------------------------------------------------- *)
(* The multi-level feedback queue with the timer interrupt                 *)
(* ---------------------------------------------------------------------- *)
(* The operations that run between disable() and restore(mask) are single  *)
(* steps.  mlfq_set_quantum never masks interrupts: the timer interrupt    *)
(* (mlfq_tick) can be taken between its store to level_quantums[level]     *)
(* and its store to level_allotments[level].  kern.call holds the          *)
(* interrupted call: its arguments, the world it was entered in (at) and   *)
(* the number of interrupts taken inside it.                               *)
MaxIrqTicks == 2
IrqPidArgs == {0, 1}
IrqQuantumArgs == {3}

Idle == Running /\ kern.call = NoCall

(* The two halves of mlfq_set_quantum, for a level that passes its check.  *)
mlfq_set_quantum_first(w, level, quantum) ==
    [w EXCEPT !.mlfq.level_quantums[level] = quantum]
mlfq_set_quantum_second(w, level, quantum) ==
    [w EXCEPT !.mlfq.level_allotments[level] = quantum * 2]

IrqEnqueue == \E pid \in IrqPidArgs : Idle /\ Apply(mlfq_enqueue(Enter, pid))
IrqSchedule == Idle /\ Apply(mlfq_schedule(Enter))
IrqMoveToLevel == \E pid \in IrqPidArgs : Idle /\ Apply(mlfq_move_to_level(Enter, pid, 0))
IrqSetBoostInterval ==
    \E ticks \in MlfqIntervalArgs : Idle /\ Apply(mlfq_set_boost_interval(Enter, ticks))
IrqSetQuantumBegin ==
    \E quantum \in IrqQuantumArgs :
        /\ Idle
        /\ Apply([mlfq_set_quantum_first(Enter, 0, quantum) EXCEPT
                    !.k.call = [op |-> "mlfq_set_quantum", level |-> 0,
                                quantum |-> quantum, at |-> Enter, ticks |-> 0]])
IrqSetQuantumEnd ==
    /\ Running
    /\ kern.call # NoCall
    /\ Apply([mlfq_set_quantum_second(Enter, kern.call.level, kern.call.quantum)
                EXCEPT !.k.call = NoCall])
IrqTimer ==
    /\ Running
    /\ mlfq.current_time_used < MaxIrqTicks
    /\ mlfq.boost_counter < MaxIrqTicks
    /\ kern.call # NoCall => kern.call.ticks = 0
    /\ Apply([mlfq_tick(Enter) EXCEPT
                !.k.call = IF @ = NoCall THEN @ ELSE [@ EXCEPT !.ticks = 1]])

NextMLFQIrq ==
    \/ IrqEnqueue
    \/ IrqSchedule
    \/ IrqMoveToLevel
    \/ IrqSetBoostInterval
    \/ IrqSetQuantumBegin
    \/ IrqSetQuantumEnd
    \/ IrqTimer

SpecMLFQIrq == InitMLFQ /\ [][NextMLFQIrq]_vars

(* ---------------------------------------------------------------------- *)
(* The framework driven by the rest of the kernel                          *)
(* ---------------------------------------------------------------------- *)
(* The kernel moves a process out of READY or CURR and then reconciles the *)
(* policy with sched_block or sched_exit; it wakes only a waiting process  *)
(* and readies only a ready one.                                           *)
Valid(pid) == pid >= 0 /\ pid < NPROC
Blocked(w, pid, state) == IF Valid(pid) THEN [w EXCEPT !.k.pstate[pid] = state] ELSE w
(* The process that blocks and wakes up, the one that exits, and a pid out  *)
(* of range on each side.                                                  *)
BlockPidArgs == {NULL, 0, NPROC}
ExitPidArgs == {NULL, NPROC - 1, NPROC}

(* The caps of the policy specifications, for the policy in use.           *)
FwMayDraw == kern.current_scheduler = "lottery_ops" => MayDraw
MaxFwMinVruntime == 10
(* Through the framework at most MaxFwRtTasks slots of the real-time pool  *)
(* are taken: a process without a task is admitted while more than         *)
(* RtPoolSize - MaxFwRtTasks slots are free.                               *)
MaxFwRtTasks == 2
FwMayEnqueue(pid) ==
    /\ kern.current_scheduler = "cfs_ops" => cfs.min_vruntime < MaxFwMinVruntime
    /\ kern.current_scheduler = "realtime_ops" =>
          \/ Len(Chain(rt.task, rt.free, RtPoolSize)) > RtPoolSize - MaxFwRtTasks
          \/ rt_find_task(rt, pid) \notin {NULL, HUNG}

FwSchedule == Running /\ FwMayDraw /\ Apply(schedule(Enter))
FwResched == Running /\ FwMayDraw /\ Apply(resched(Enter))
(* What the uninitialised locals of the active policy's functions hold.    *)
FwGarbage ==
    IF kern.current_scheduler = "mlfq_ops" THEN MlfqGarbage
    ELSE {[level |-> 0, word |-> 0]}
FwYield ==
    \E round \in RoundArgs, g \in FwGarbage :
        Running /\ FwMayDraw /\ Apply(yield(Stack(g), round))
FwPreempt == \E g \in FwGarbage : Running /\ FwMayDraw /\ Apply(preempt(Stack(g)))
FwSetPriority ==
    \E pid \in PrioSetPids, priority \in PrioArgs :
        Running /\ FwMayDraw /\ Apply(setpriority(Enter, pid, priority).w)
FwTick ==
    Running /\ FwMayDraw /\ kern.system_ticks < MaxSystemTicks /\ Apply(sched_tick(Enter))
FwReady ==
    \E pid \in PidArgs :
        /\ Running
        /\ FwMayEnqueue(pid)
        /\ Valid(pid) => kern.pstate[pid] = "PR_READY"
        /\ Apply(sched_ready(Enter, pid))
FwBlock ==
    \E pid \in BlockPidArgs :
        /\ Running
        /\ FwMayDraw
        /\ Valid(pid) => kern.pstate[pid] \in {"PR_CURR", "PR_READY"}
        /\ Apply(sched_block(Blocked(Enter, pid, "PR_WAIT"), pid))
FwWakeup ==
    \E pid \in BlockPidArgs :
        /\ Running
        /\ FwMayEnqueue(pid)
        /\ Valid(pid) => kern.pstate[pid] = "PR_WAIT"
        /\ Apply(sched_wakeup(Enter, pid))
FwExit ==
    \E pid \in ExitPidArgs :
        /\ Running
        /\ FwMayDraw
        /\ Valid(pid) => kern.pstate[pid] # "PR_FREE"
        /\ Apply(sched_exit(Blocked(Enter, pid, "PR_FREE"), pid))
FwShutdown == Running /\ Apply(scheduler_shutdown(Enter))
FwSwitch ==
    \E type \in SchedTypeArgs : Running /\ Apply(scheduler_switch(Enter, type).w)

Init == \E type \in SchedTypeArgs : InitOf(type)

Next ==
    \/ FwSchedule
    \/ FwResched
    \/ FwYield
    \/ FwPreempt
    \/ FwSetPriority
    \/ FwTick
    \/ FwReady
    \/ FwBlock
    \/ FwWakeup
    \/ FwExit
    \/ FwShutdown
    \/ FwSwitch

Spec == Init /\ [][Next]_vars


(* ---------------------------------------------------------------------- *)
(* SpecLatency: cfs_sched_latency as a function of cfs_rq.nr_running.  The *)
(* pool of the source holds CFS_MAX_TASKS = 256 tasks; the run-queue       *)
(* length is drawn from 0 .. MaxNrRunning and the function applied to it.  *)
(* ---------------------------------------------------------------------- *)

MaxNrRunning == 64

InitLatency ==
    \E n \in 0..MaxNrRunning :
        /\ kern = [KernStatic EXCEPT !.current_scheduler = "cfs_ops",
                                     !.sched_policy = "SCHEDULER_CFS",
                                     !.sched_initialized = TRUE]
        /\ cfs = [CfsStatic EXCEPT !.nr_running = n]
        /\ rr = RRStatic /\ prio = PrioStatic /\ lot = LotStatic
        /\ rt = RtStatic /\ mlfq = MlfqStatic

LatencyCall ==
    /\ kern.call = NoCall
    /\ kern' = [kern EXCEPT !.call = [op |-> "cfs_sched_latency",
                                      r |-> cfs_sched_latency(cfs)]]
    /\ UNCHANGED <<rr, prio, lot, cfs, rt, mlfq>>

NextLatency == LatencyCall

SpecLatency == InitLatency /\ [][NextLatency]_vars


(* ---------------------------------------------------------------------- *)
(* SpecDraw: lottery_draw as a function of the ticket pool and of the      *)
(* output of random_next.  entry_pool holds LOTTERY_MAX_ENTRIES = 256      *)
(* entries in the source; pools of 1 .. DrawEntries entries are drawn,     *)
(* entry i belonging to pid i, each with LOTTERY_MIN_TICKETS or            *)
(* LOTTERY_MAX_TICKETS tickets.                                            *)
(* ---------------------------------------------------------------------- *)

DrawEntries == 5
DrawTicketArgs == {LOTTERY_MIN_TICKETS, LOTTERY_MAX_TICKETS}
(* random_next returns (random_state >> 16) & 0x7FFF.                      *)
RNG_MASK == 32767
DrawOutputArgs == {0, LOTTERY_MAX_TICKETS, RNG_MASK}

RECURSIVE DrawSum(_, _)
DrawSum(tk, n) == IF n = 0 THEN 0 ELSE tk[n] + DrawSum(tk, n - 1)

DrawPool(tk, n) ==
    [LotStatic EXCEPT
        !.pool = 0,
        !.total_tickets = DrawSum(tk, n),
        !.participant_count = n,
        !.entry = [i \in 0..(n - 1) |->
                      [pid |-> i, base_tickets |-> tk[i + 1],
                       current_tickets |-> tk[i + 1], compensation |-> 0, wins |-> 0,
                       next |-> IF i = n - 1 THEN NULL ELSE i + 1]]]

(* The pid lottery_draw returns when random_next returns r.                *)
LotDrawAt(q, r) ==
    IF q.pool = NULL \/ q.total_tickets = 0 THEN NULL
    ELSE LET e == LotWalk(q.entry, Chain(q.entry, q.pool, DrawEntries + 1), 0,
                          r % q.total_tickets)
         IN q.entry[IF e # NULL THEN e ELSE q.pool].pid

InitDraw ==
    \E n \in 1..DrawEntries :
        \E tk \in [1..n -> DrawTicketArgs] :
            /\ kern = [KernStatic EXCEPT !.current_scheduler = "lottery_ops",
                                         !.sched_policy = "SCHEDULER_LOTTERY",
                                         !.sched_initialized = TRUE]
            /\ lot = DrawPool(tk, n)
            /\ rr = RRStatic /\ prio = PrioStatic /\ cfs = CfsStatic
            /\ rt = RtStatic /\ mlfq = MlfqStatic

DrawCall ==
    \E r \in DrawOutputArgs :
        /\ kern.call = NoCall
        /\ kern' = [kern EXCEPT !.call = [op |-> "lottery_draw", r |-> r,
                                          pid |-> LotDrawAt(lot, r)]]
        /\ UNCHANGED <<rr, prio, lot, cfs, rt, mlfq>>

NextDraw == DrawCall

SpecDraw == InitDraw /\ [][NextDraw]_vars

(* ---------------------------------------------------------------------- *)
(* Properties                                                              *)
(* ---------------------------------------------------------------------- *)

(* The pids queued in the active policy, in queue order, and the pid the   *)
(* policy designates as current (NULL when it designates none).            *)
PidsOf(node, ch) == [i \in 1..Len(ch) |-> node[ch[i]].pid]
ReadyPids ==
    CASE kern.current_scheduler = "rr_ops" ->
            PidsOf(rr.node, Chain(rr.node, rr.head, rr.count))
      [] kern.current_scheduler = "prio_ops" -> PidsOf(prio.node, PrioChain(prio))
      [] kern.current_scheduler = "lottery_ops" -> PidsOf(lot.entry, LotChain(lot))
      [] kern.current_scheduler = "cfs_ops" -> PidsOf(cfs.task, CfsChain(cfs))
      [] kern.current_scheduler = "realtime_ops" -> PidsOf(rt.task, RtReadyChain(rt))
PolicyCurrent ==
    CASE kern.current_scheduler = "rr_ops" ->
            IF rr.current = NULL THEN NULL ELSE rr.node[rr.current].pid
      [] kern.current_scheduler = "prio_ops" -> NULL
      [] kern.current_scheduler = "lottery_ops" -> lot.current_pid
      [] kern.current_scheduler = "cfs_ops" ->
            IF cfs.curr = NULL THEN NULL ELSE cfs.task[cfs.curr].pid
      [] kern.current_scheduler = "realtime_ops" ->
            IF rt.current_task = NULL THEN NULL ELSE rt.task[rt.current_task].pid

(* C1 (every policy, Spec): a call to schedule() either invokes            *)
(* context_switch or leaves the ready structure, the policy's current      *)
(* task, currpid and the process states unchanged.                         *)
C1_ScheduleSwitchesOrLeaves ==
    [][FwSchedule =>
          \/ kern'.ctx
          \/ /\ ReadyPids' = ReadyPids
             /\ PolicyCurrent' = PolicyCurrent
             /\ kern'.currpid = kern.currpid
             /\ kern'.pstate = kern.pstate]_vars

FwSwitchUnknown == Running /\ Apply(scheduler_switch(Enter, "SCHEDULER_UNKNOWN").w)

(* C3 (Spec): scheduler_switch with an unknown type returns SYSERR and     *)
(* leaves current_scheduler, sched_policy and the pids queued in the       *)
(* active policy, in their order, as they were.                            *)
C3_UnknownSwitchLeavesPolicy ==
    [][FwSwitchUnknown =>
          /\ scheduler_switch(Enter, "SCHEDULER_UNKNOWN").r = SYSERR
          /\ kern'.current_scheduler = kern.current_scheduler
          /\ kern'.sched_policy = kern.sched_policy
          /\ ReadyPids' = ReadyPids]_vars

(* C4 (lottery, SpecLottery): the cached total_tickets equals the sum of   *)
(* current_tickets over the entries of the pool list.                      *)
C4_TotalTicketsIsSum ==
    lot.total_tickets = LotSumTickets(lot.entry, LotChain(lot))

(* C5 (priority, SpecPrio): the ready list is sorted descending, every     *)
(* node's current_priority is >= its successor's.                          *)
C5_ReadyListSortedDescending == PrioSorted(prio)

(* C6 (CFS, SpecCFS): nr_running is the number of tasks in the timeline,   *)
(* load_weight is the sum of their weights, and a task of the pool has     *)
(* on_rq set exactly when it is linked in the timeline.                    *)
C6_CountersMatchTimeline ==
    /\ cfs.nr_running = Len(CfsChain(cfs))
    /\ cfs.load_weight = CfsSumWeight(cfs.task, CfsChain(cfs))
    /\ \A t \in DOMAIN cfs.task : cfs.task[t].on_rq <=> t \in SeqSet(CfsChain(cfs))

(* C7 (CFS, SpecCFS): the timeline is sorted in non-decreasing vruntime    *)
(* order and leftmost is its first node, NULL when it is empty.            *)
C7_TimelineSortedLeftmostFirst ==
    /\ \A i \in 1..(Len(CfsChain(cfs)) - 1) :
          cfs.task[CfsChain(cfs)[i]].vruntime <= cfs.task[CfsChain(cfs)[i + 1]].vruntime
    /\ cfs.leftmost = cfs.tasks_timeline
    /\ cfs.leftmost = (IF CfsChain(cfs) = <<>> THEN NULL ELSE Head(CfsChain(cfs)))

(* A timeline of two tasks with different vruntimes beside a running task: *)
(* put_prev_task has re-inserted a task that ran.                          *)
C7_Witness ==
    /\ Len(CfsChain(cfs)) = 2
    /\ cfs.task[CfsChain(cfs)[1]].vruntime < cfs.task[CfsChain(cfs)[2]].vruntime
    /\ cfs.curr # NULL

(* C8 (real-time, SpecRT): the ready list is ordered by the selection key  *)
(* of the active algorithm: EDF non-decreasing absolute_deadline, RMS and  *)
(* DMS non-increasing rms_priority, LLF non-decreasing laxity.             *)
C8_ReadyListOrderedByKey ==
    \A i \in 2..Len(RtReadyChain(rt)) :
       LET a == rt.task[RtReadyChain(rt)[i - 1]]
           b == rt.task[RtReadyChain(rt)[i]]
       IN CASE rt.current_algo = "EDF" -> a.absolute_deadline <= b.absolute_deadline
            [] rt.current_algo \in {"RMS", "DMS"} -> a.rms_priority >= b.rms_priority
            [] rt.current_algo = "LLF" -> a.laxity <= b.laxity

(* The slots of a pool on its free list, and those linked in the policy's  *)
(* structures or held as its current task.                                 *)
FreeSlots(node, free) == SeqSet(Chain(node, free, Cardinality(DOMAIN node)))
UsedSlots(node, roots) ==
    Closure([i \in DOMAIN node |-> {node[i].next} \ {NULL}], roots \ {NULL},
            Cardinality(DOMAIN node))
Conserved(node, free, roots) ==
    /\ FreeSlots(node, free) \cap UsedSlots(node, roots) = {}
    /\ Cardinality(FreeSlots(node, free)) + Cardinality(UsedSlots(node, roots))
          = Cardinality(DOMAIN node)

(* C9 (every policy, Spec): between init and shutdown the nodes on the     *)
(* free list of the active policy plus the nodes in use are the whole pool; *)
(* none is leaked and none is both free and in use.                        *)
C9_PoolConserved ==
    kern.sched_initialized =>
       CASE kern.current_scheduler = "rr_ops" ->
               Conserved(rr.node, rr.free, {rr.head, rr.current})
         [] kern.current_scheduler = "prio_ops" ->
               Conserved(prio.node, prio.free, {prio.queue})
         [] kern.current_scheduler = "lottery_ops" ->
               Conserved(lot.entry, lot.free, {lot.pool})
         [] kern.current_scheduler = "cfs_ops" ->
               Conserved(cfs.task, cfs.free, {cfs.tasks_timeline, cfs.leftmost, cfs.curr})
         [] kern.current_scheduler = "realtime_ops" ->
               Conserved(rt.task, rt.free, {rt.all_tasks, rt.ready_queue, rt.current_task})

(* C10 (round-robin, SpecRR): the list is empty with count = 0, or every   *)
(* node satisfies node.next.prev = node and the walk from head returns to  *)
(* head in exactly rr_queue_count steps.                                   *)
C10_RingWellFormed ==
    \/ (rr.head = NULL /\ rr.count = 0)
    \/ /\ rr.head # NULL
       /\ LET ring == Chain(rr.node, rr.head, rr.count)
          IN /\ Len(ring) = rr.count
             /\ rr.count >= 1
             /\ \A i \in 1..Len(ring) :
                   /\ rr.node[ring[i]].next # NULL
                   /\ rr.node[rr.node[ring[i]].next].prev = ring[i]
                   /\ \A j \in 1..Len(ring) : i # j => ring[i] # ring[j]
             /\ rr.node[ring[Len(ring)]].next = rr.head
       /\ round_robin_validate(rr)

(* A ring of two nodes with a free node left, rotated past the head, with  *)
(* the node at current running.                                            *)
C10_Witness ==
    /\ rr.count = NPROC - 1
    /\ rr.free # NULL
    /\ rr.current # rr.head
    /\ rr.current # NULL
    /\ kern.currpid = rr.node[rr.current].pid
    /\ kern.ctx


(* C11: in the multi-level feedback queue, after any sequence of enqueue,  *)
(* dequeue, promote, demote, move_to_level, io_done, priority_boost, tick, *)
(* schedule, yield and preempt, every node's level field is the index of   *)
(* the queue that links it, every level's count is the length of its list, *)
(* and head, tail, next and prev agree with each other.                    *)
MlfqLevelLinked(q, level) ==
    LET ch == Chain(q.node, q.queue[level].head, NPROC + 1)
    IN /\ Len(ch) <= NPROC
       /\ Len(ch) = q.queue[level].count
       /\ \A i \in 1..Len(ch) : q.node[ch[i]].level = level
       /\ \A i \in 1..Len(ch) :
            q.node[ch[i]].prev = IF i = 1 THEN NULL ELSE ch[i - 1]
       /\ q.queue[level].tail = IF ch = <<>> THEN NULL ELSE ch[Len(ch)]
       /\ q.queue[level].tail # NULL => q.node[q.queue[level].tail].next = NULL

C11_MlfqQueuesConsistent ==
    /\ \A level \in MlfqLevels : MlfqLevelLinked(mlfq, level)
    /\ mlfq_validate(mlfq)

(* Two processes share a level other than the one they entered at, one of  *)
(* them is the current node, and the last operation switched context.      *)
C11_Witness ==
    /\ \E level \in MlfqLevels \ {MlfqStartLevel(PRIORITY_DEFAULT)} :
            mlfq.queue[level].count = 2
    /\ mlfq.current_node # NULL
    /\ kern.ctx


(* C12: every mutating operation on the active policy, the policy-specific *)
(* ones included, is atomic against the timer interrupt: the state in      *)
(* which mlfq_set_quantum returns is the state that the call and the ticks *)
(* taken during it produce in one order or the other.                      *)
Outcome(w) == [k |-> [w.k EXCEPT !.ctx = FALSE], mlfq |-> MlfqCanon(w.mlfq)]

SerialOutcomes(call) ==
    IF call.ticks = 0
    THEN {Outcome(mlfq_set_quantum(call.at, call.level, call.quantum))}
    ELSE {Outcome(mlfq_tick(mlfq_set_quantum(call.at, call.level, call.quantum))),
          Outcome(mlfq_set_quantum(mlfq_tick(call.at), call.level, call.quantum))}

C12_SetQuantumAtomic ==
    [][IrqSetQuantumEnd =>
          [k |-> [kern' EXCEPT !.ctx = FALSE], mlfq |-> mlfq']
              \in SerialOutcomes(kern.call)]_vars

(* ---------------------------------------------------------------------- *)
(* C13: a task with miss policy CONTINUE or NOTIFY that has missed its    *)
(* deadline while running keeps running: on every later tick it is still  *)
(* the current task and its remaining_time is one less, until the         *)
(* instance completes.                                                     *)
(* ---------------------------------------------------------------------- *)

(* The current task has missed its deadline under a policy that keeps it  *)
(* running, and its instance is more than one tick from completion.       *)
RtMissedWhileRunning(r) ==
    /\ r.current_task # NULL
    /\ r.task[r.current_task].state = "MISSED"
    /\ r.task[r.current_task].params.miss_policy \in {"CONTINUE", "NOTIFY"}
    /\ r.task[r.current_task].remaining_time > 1

C13_MissedTaskKeepsRunning ==
    [][RunTick /\ RtMissedWhileRunning(rt) =>
          /\ rt'.current_task # NULL
          /\ rt'.task[rt'.current_task].pid = rt.task[rt.current_task].pid
          /\ rt'.task[rt'.current_task].remaining_time
                = rt.task[rt.current_task].remaining_time - 1]_vars

(* ---------------------------------------------------------------------- *)
(* C14: every task that has been released has absolute_deadline =         *)
(* release_time + params.deadline and remaining_time <= params.wcet, in   *)
(* every reachable state (after realtime_set_params, yield and tick too). *)
(* ---------------------------------------------------------------------- *)

(* A task leaves RT_STATE_INACTIVE only through realtime_release.          *)
RtReleased(r) == {t \in DOMAIN r.task : r.task[t].state # "INACTIVE"}

C14_ReleasedTaskTiming ==
    \A t \in RtReleased(rt) :
        /\ rt.task[t].absolute_deadline
              = rt.task[t].release_time + rt.task[t].params.deadline
        /\ rt.task[t].remaining_time <= rt.task[t].params.wcet

(* ---------------------------------------------------------------------- *)
(* C15: in the EDF scenario with tasks (period, wcet) = (10,3), (15,5),   *)
(* (20,4) and deadline = period, over 600 ticks total_deadline_misses     *)
(* stays 0 and every task is released once per period and completes each  *)
(* instance.  realtime_check_releases releases a task only when it is not *)
(* READY or RUNNING, so a release at every multiple of the period with no *)
(* miss recorded means that the instance before it has completed.         *)
(* ---------------------------------------------------------------------- *)

(* The task of pid has been released at the latest multiple of its period. *)
(* A task that is no longer met from all_tasks, ready_queue or             *)
(* current_task has no slot in the model; it is missing from the moment    *)
(* its next release is due.                                                *)
EdfReleasedOnTime(r, pid) ==
    LET period == EdfParamsOf(pid).period
        due == r.system_time - (r.system_time % period)
    IN r.system_time >= period =>
          /\ \A t \in EdfTasksOf(r, pid) :
                r.task[t].state # "INACTIVE" /\ r.task[t].release_time = due
          /\ r.system_time = due => EdfTasksOf(r, pid) # {}

C15_EdfScenarioMeetsDeadlines ==
    rt.task_count = Cardinality(EdfPids) =>
        /\ rt.total_deadline_misses = 0
        /\ \A pid \in EdfPids : EdfReleasedOnTime(rt, pid)

(* ---------------------------------------------------------------------- *)
(* C16: with n >= 2 processes enqueued and quantum q, ticks with           *)
(* schedule() called whenever need_resched is set dispatch the processes   *)
(* cyclically in enqueue order, each for exactly q consecutive ticks; the  *)
(* queue count stays n and every hand-over is one context switch.          *)
(* ---------------------------------------------------------------------- *)

(* The process that runs during tick number tick (from 1).                 *)
RotRunner(q, tick) == RotOrder(q)[(((tick - 1) \div q.quantum) % q.count) + 1]

(* Between a tick and the next one the process of the coming tick has been *)
(* dispatched, unless need_resched is still to be served: then the process *)
(* of the last tick, whose quantum has just ended, is still current.       *)
RotDispatched ==
    rr.count >= 2 =>
       IF kern.need_resched
       THEN /\ kern.system_ticks % rr.quantum = 0
            /\ kern.currpid = RotRunner(rr, kern.system_ticks)
       ELSE kern.system_ticks > 0 => kern.currpid = RotRunner(rr, kern.system_ticks + 1)

(* A hand-over: schedule() serving need_resched switches context once, to  *)
(* the next process of the ring; ticks and hand-overs keep the count.      *)
RotHandOver ==
    /\ RotTick \/ RotSchedule => rr'.count = rr.count /\ RotOrder(rr') = RotOrder(rr)
    /\ RotTick => ~kern'.ctx
    /\ RotSchedule /\ kern.need_resched =>
          /\ kern'.ctx
          /\ kern'.currpid = RotRunner(rr, kern.system_ticks + 1)
          /\ kern'.currpid # kern.currpid
          /\ ~kern'.need_resched

C16_RoundRobinRotation == []RotDispatched /\ [][RotHandOver]_vars

(* The third process of a ring of three is dispatched for its second       *)
(* quantum.                                                                *)
C16_Witness ==
    /\ rr.count = 3
    /\ kern.system_ticks = 5 * rr.quantum
    /\ ~kern.need_resched
    /\ kern.ctx
    /\ kern.currpid = RotOrder(rr)[3]

(* ---------------------------------------------------------------------- *)
(* C17: a CPU-bound process that is the only runnable one, enqueued at    *)
(* level 0 and driven by ticks with schedule() called whenever             *)
(* need_resched is set, is demoted to level k+1 with time_used = 0 and a   *)
(* fresh allotment as soon as it has consumed allotment(k) ticks at level  *)
(* k: level 1 after allotment(0) ticks, level 2 after allotment(0) +       *)
(* allotment(1) ticks, and finally level 7, where it stays.                *)
(* ---------------------------------------------------------------------- *)

(* The ticks after which the process has used up the allotments of the     *)
(* levels below level.                                                     *)
RECURSIVE DemoteReach(_, _)
DemoteReach(q, level) ==
    IF level = 0 THEN 0 ELSE DemoteReach(q, level - 1) + q.level_allotments[level - 1]

(* The level of a process that has run for ticks ticks from level 0.       *)
DemoteLevelAt(q, ticks) ==
    LET below == {l \in MlfqLevels : DemoteReach(q, l) <= ticks}
    IN CHOOSE l \in below : \A m \in below : m <= l

C17_CpuBoundDemotionChain ==
    mlfq.current_node # NULL /\ ~kern.need_resched =>
        LET node == mlfq.node[mlfq.current_node]
            level == DemoteLevelAt(mlfq, kern.system_ticks)
        IN /\ node.level = level
           /\ kern.system_ticks = DemoteReach(mlfq, level) =>
                 /\ node.time_used = 0
                 /\ node.time_allotment = mlfq.level_allotments[level]

(* ---------------------------------------------------------------------- *)
(* C18: with boost enabled, on every boost_interval-th tick all tasks at  *)
(* levels 1..7 are moved to level 0: immediately afterwards levels 1..7   *)
(* are empty and every moved task has time_used = 0 and time_allotment =  *)
(* allotment(0); the count of ticks since the last boost starts again, so *)
(* that no queued task stays below level 0 for more than boost_interval   *)
(* consecutive ticks.                                                      *)
(* ---------------------------------------------------------------------- *)

(* The tick about to be taken is the boost_interval-th since the last     *)
(* boost.                                                                  *)
BoostDue(q) == q.boost_enabled /\ q.boost_counter + 1 >= q.boost_interval

(* The pids queued at the levels of the set levels.                        *)
BoostPidsAt(q, levels) ==
    {q.node[n].pid : n \in {m \in SeqSet(MlfqWalk(q, 0)) : q.node[m].level \in levels}}

BoostTickPost ==
    IF BoostDue(mlfq)
    THEN /\ \A level \in MlfqLevels \ {0} :
               mlfq'.queue[level] = MlfqEmptyQueue
         /\ BoostPidsAt(mlfq', MlfqLevels \ {0}) = {}
         /\ BoostPidsAt(mlfq', {0}) = BoostPidsAt(mlfq, MlfqLevels)
         /\ \A n \in SeqSet(MlfqWalk(mlfq', 0)) :
               mlfq'.node[n].pid \in BoostPidsAt(mlfq, MlfqLevels \ {0}) =>
                  /\ mlfq'.node[n].level = 0
                  /\ mlfq'.node[n].time_used = 0
                  /\ mlfq'.node[n].time_allotment = mlfq.level_allotments[0]
         /\ mlfq'.boost_counter = 0
    ELSE mlfq.boost_enabled =>
            /\ mlfq'.boost_counter = mlfq.boost_counter + 1
            /\ mlfq'.boost_counter < mlfq.boost_interval

C18_BoostEmptiesLowerLevels == [][BoostTick => BoostTickPost]_vars

(* After the third tick at interval 3: both processes are at level 0, one  *)
(* of them the current one, the count of ticks since the boost is 0.       *)
C18_Witness ==
    /\ mlfq.boost_enabled
    /\ mlfq.boost_interval = 3
    /\ kern.system_ticks = 3
    /\ mlfq.boost_counter = 0
    /\ mlfq.current_time_used = 3
    /\ mlfq.current_node # NULL
    /\ mlfq.queue[0].count = 2

(* ---------------------------------------------------------------------- *)
(* C19: if the current task is still a participant and time_remaining > 0, *)
(* lottery_schedule holds no lottery and changes nothing (current_pid,     *)
(* time_remaining, wins, total_lotteries and the RNG state are unchanged   *)
(* and no context switch occurs); a lottery is held only when the quantum  *)
(* is exhausted or the current task is no longer a participant.            *)
(* ---------------------------------------------------------------------- *)

(* The current task is a participant with quantum left.                    *)
LotStillRunning(q) ==
    /\ q.current_pid >= 0
    /\ q.time_remaining > 0
    /\ find_entry(q, q.current_pid) # NULL

(* A lottery has been held in the step.                                    *)
LotteryHeld ==
    \/ lot'.total_lotteries # lot.total_lotteries
    \/ lot'.random_state # lot.random_state

C19_RunToQuantum ==
    [][/\ LotSchedule /\ LotStillRunning(lot) =>
             /\ lot' = lot
             /\ ~kern'.ctx
             /\ kern'.currpid = kern.currpid
             /\ kern'.pstate = kern.pstate
       /\ LotSchedule /\ LotteryHeld => ~LotStillRunning(lot)
       /\ LotTick /\ LotteryHeld =>
             \/ lot.time_remaining <= 1
             \/ lot.current_pid < 0
             \/ find_entry(lot, lot.current_pid) = NULL]_vars

(* lottery_schedule has returned at once: the winner of an earlier lottery *)
(* is a participant with its quantum untouched, and no context switch was  *)
(* made.                                                                   *)
C19_Witness ==
    /\ LotStillRunning(lot)
    /\ lot.total_lotteries >= 1
    /\ lot.time_remaining = DEFAULT_QUANTUM
    /\ lot.participant_count >= 2
    /\ ~kern.ctx

(* ---------------------------------------------------------------------- *)
(* C20: lottery_transfer_tickets(from, to, n) between two distinct        *)
(* participants moves m = min(n, from.base - 1, 10000 - to.base) tickets:  *)
(* from.base decreases by m, to.base increases by m, both bases stay in    *)
(* [1, 10000], their sum is unchanged and m is returned; if either pid is  *)
(* not a participant it returns 0 and changes nothing.                     *)
(* ---------------------------------------------------------------------- *)

TransferPost(from_pid, to_pid, tickets) ==
    LET from == find_entry(lot, from_pid)
        to == find_entry(lot, to_pid)
        returned == lottery_transfer_tickets(Enter, from_pid, to_pid, tickets).r
    IN IF from = NULL \/ to = NULL
       THEN returned = 0 /\ lot' = lot
       ELSE from_pid # to_pid =>
            LET from_base == lot.entry[from].base_tickets
                to_base == lot.entry[to].base_tickets
                m == Min(tickets, Min(from_base - 1, 10000 - to_base))
                from_after == lot'.entry[find_entry(lot', from_pid)].base_tickets
                to_after == lot'.entry[find_entry(lot', to_pid)].base_tickets
            IN /\ returned = m
               /\ find_entry(lot', from_pid) # NULL
               /\ find_entry(lot', to_pid) # NULL
               /\ from_after = from_base - m
               /\ to_after = to_base + m
               /\ from_after >= 1 /\ from_after <= 10000
               /\ to_after >= 1 /\ to_after <= 10000
               /\ from_after + to_after = from_base + to_base

C20_TransferMovesClampedAmount ==
    [][\A from_pid \in TransferEndArgs, to_pid \in TransferEndArgs,
          tickets \in TransferAmountArgs :
            TransferStep(from_pid, to_pid, tickets)
               => TransferPost(from_pid, to_pid, tickets)]_vars

(* Two participants after a transfer that the receiver's space has cut to  *)
(* two tickets: the giver has two less than the default, the receiver is   *)
(* at the maximum.                                                         *)
C20_Witness ==
    \E e1 \in SeqSet(LotChain(lot)), e2 \in SeqSet(LotChain(lot)) :
        /\ lot.entry[e1].base_tickets = LOTTERY_DEFAULT_TICKETS - 2
        /\ lot.entry[e2].base_tickets = LOTTERY_MAX_TICKETS

(* ---------------------------------------------------------------------- *)
(* C21: between cfs_init and cfs_shutdown no operation (enqueue, dequeue,  *)
(* set_nice, sleep, wakeup, tick, schedule, yield, preempt) lowers         *)
(* cfs_rq.min_vruntime.                                                    *)
(* ---------------------------------------------------------------------- *)
C21_MinVruntimeMonotone == [][cfs'.min_vruntime >= cfs.min_vruntime]_vars

(* min_vruntime has moved forward past a queued task's placement while a   *)
(* task runs.                                                              *)
C21_Witness ==
    /\ cfs.min_vruntime > cfs_calc_delta(CFS_TARGET_LATENCY \div 2, CFS_WEIGHT_NICE0)
    /\ cfs.curr # NULL
    /\ cfs.leftmost # NULL

(* ---------------------------------------------------------------------- *)
(* C22: for every policy and every pid p that is not a member, enqueue(p)  *)
(* followed immediately by dequeue(p) leaves the policy's structures as    *)
(* they were before the enqueue (members and their order, current/cursor,  *)
(* counts and cached totals, free list).                                   *)
(* ---------------------------------------------------------------------- *)

(* pid is a member of the structures of the current policy.                *)
PolicyMember(w, pid) ==
    CASE w.k.current_scheduler = "rr_ops" -> rr_find_node(w.rr, pid) # NULL
      [] w.k.current_scheduler = "prio_ops" -> prio_find_node(w.prio, pid) # NULL
      [] w.k.current_scheduler = "lottery_ops" -> find_entry(w.lot, pid) # NULL
      [] w.k.current_scheduler = "cfs_ops" -> find_task(w.cfs, pid) # NULL
      [] w.k.current_scheduler = "realtime_ops" -> rt_find_task(w.rt, pid) # NULL
      [] w.k.current_scheduler = "mlfq_ops" -> mlfq_find_node(w.mlfq, pid) # NULL
      [] OTHER -> FALSE

(* The structures of the policies, up to the renaming of pool slots.       *)
PolicyData(w) ==
    [rr |-> RRCanon(w.rr), prio |-> PrioCanon(w.prio), lot |-> LotCanon(w.lot),
     cfs |-> CfsCanon(w.cfs), rt |-> RtCanon(w.rt), mlfq |-> MlfqCanon(w.mlfq)]

C22_EnqueueDequeueRoundTrip ==
    Running =>
        \A pid \in Pids :
            ~PolicyMember(World, pid) =>
                PolicyData(OpsDequeue(OpsEnqueue(World, pid), pid)) = PolicyData(World)

(* ---------------------------------------------------------------------- *)
(* C24: for every queued pid p and priorities x, y, priority_set(p, x)     *)
(* followed by priority_set(p, y) yields the same ready-queue order and    *)
(* the same base and current priority of p as priority_set(p, y) alone.    *)
(* ---------------------------------------------------------------------- *)

SetPriorityArgs == {PRIORITY_DEFAULT - 1, PRIORITY_DEFAULT, PRIORITY_MAX + 1}

(* The ready queue as it is observed: pid, base and current priority of    *)
(* every node from the head.                                               *)
PrioOrder(q) ==
    LET ch == PrioChain(q)
    IN [i \in 1..Len(ch) |->
          [pid |-> q.node[ch[i]].pid, base_priority |-> q.node[ch[i]].base_priority,
           current_priority |-> q.node[ch[i]].current_priority]]

C24_SetPriorityLastWins ==
    \A pid \in Pids :
        prio_find_node(prio, pid) # NULL =>
            \A x \in SetPriorityArgs, y \in SetPriorityArgs :
                LET twice == priority_set(priority_set(World, pid, x), pid, y)
                    once == priority_set(World, pid, y)
                IN /\ PrioOrder(twice.prio) = PrioOrder(once.prio)
                   /\ twice.k.pprio = once.k.pprio

(* Three queued nodes of which the last has had its priority set: setting  *)
(* the priority of the head moves it to another place.                     *)
C24_Witness ==
    /\ prio.count = NPROC
    /\ \E pid \in Pids : kern.pprio[pid] # PRIORITY_DEFAULT
    /\ LET head == prio.node[prio.queue].pid
       IN PrioOrder(priority_set(World, head, 0).prio) # PrioOrder(prio)

(* ---------------------------------------------------------------------- *)
(* C23: for every policy, dequeue(pid) of a pid that is not a member of    *)
(* the policy's structures changes nothing: the structures, the counts,    *)
(* the cached totals, the current task, the free list and the process      *)
(* table are what they were.                                               *)
(* ---------------------------------------------------------------------- *)

DequeuePidArgs == Pids \cup {NULL, NPROC}

ReadyView(w) ==
    [PolicyData(w) EXCEPT
        !.lot = [@ EXCEPT !.random_state = [hi |-> 0, lo |-> 0],
                          !.total_lotteries = 0,
                          !.entry = [e \in DOMAIN @ |-> [@[e] EXCEPT !.wins = 0]]]]

C25_ScheduleIdempotent ==
    (Running /\ ~kern.need_resched) =>
        LET once == schedule(World)
            twice == schedule(once)
        IN /\ twice.k.currpid = once.k.currpid
           /\ ReadyView(twice) = ReadyView(once)

(* ---------------------------------------------------------------------- *)
(* C26: setpriority(pid, p) and getpriority(pid) return SYSERR when pid is *)
(* outside [0, NPROC) or the process is free, and then no process          *)
(* priority, no ready structure and not need_resched changes; for a valid  *)
(* pid setpriority stores p clamped to PRIORITY_MAX and returns the        *)
(* priority the process had before.                                        *)
(* ---------------------------------------------------------------------- *)

SyscallPidArgs == Pids \cup {NULL, NPROC}
SyscallPrioArgs == {0, PRIORITY_DEFAULT + 1, PRIORITY_MAX, PRIORITY_MAX + 1}

C26_SetGetPriorityErrors ==
    Running =>
        \A pid \in SyscallPidArgs, priority \in SyscallPrioArgs :
            LET s == setpriority(World, pid, priority) IN
            IF pid < 0 \/ pid >= NPROC \/ kern.pstate[pid] = "PR_FREE"
            THEN /\ s.r = SYSERR
                 /\ getpriority(World, pid) = SYSERR
                 /\ s.w = World
            ELSE /\ s.r = kern.pprio[pid]
                 /\ s.w.k.pprio[pid] =
                        (IF priority > PRIORITY_MAX THEN PRIORITY_MAX ELSE priority)
                 /\ getpriority(World, pid) # SYSERR

(* A process has exited and another one has had its priority raised to the *)
(* maximum by setpriority.                                                 *)
C26_Witness ==
    /\ Running
    /\ \E pid \in Pids : kern.pstate[pid] = "PR_FREE"
    /\ \E pid \in Pids : kern.pstate[pid] # "PR_FREE" /\ kern.pprio[pid] = PRIORITY_MAX

(* ---------------------------------------------------------------------- *)
(* C27: scheduler_switch(type) leaves the statistics counters and          *)
(* system_ticks as they were before the switch.  The counters compared are *)
(* those of the policy that is active before and after the switch, the     *)
(* ones sched_get_stats reports: the lottery's total_lotteries and the     *)
(* real-time total_deadline_misses.                                        *)
(* ---------------------------------------------------------------------- *)

StatCounters ==
    [total_lotteries |-> lot.total_lotteries,
     total_deadline_misses |-> rt.total_deadline_misses]

C27_SwitchKeepsCounters ==
    [][FwSwitch =>
          /\ kern'.system_ticks = kern.system_ticks
          /\ kern'.current_scheduler = kern.current_scheduler =>
                 StatCounters' = StatCounters]_vars

(* ---------------------------------------------------------------------- *)
(* C28: for every value of nr_running, cfs_sched_latency() returns         *)
(* max(CFS_TARGET_LATENCY, CFS_MIN_GRANULARITY * nr_running).              *)
(* ---------------------------------------------------------------------- *)

C28_LatencyIsMax ==
    kern.call.op = "cfs_sched_latency" =>
        kern.call.r = Max(CFS_TARGET_LATENCY, CFS_MIN_GRANULARITY * cfs.nr_running)

(* ---------------------------------------------------------------------- *)
(* C29: for a queued task p put to sleep with cfs_sleep(p), cfs_wakeup(p)  *)
(* after a sleep of d ticks puts p back on the timeline: on_rq is true,    *)
(* nr_running and load_weight grow by p's share, and p's vruntime is       *)
(* max(vruntime, min_vruntime) less the sleeper credit                     *)
(* min(calc_delta(latency / 2, weight), calc_delta(d, weight) / 2), and    *)
(* not below 0.                                                            *)
(* ---------------------------------------------------------------------- *)

SleepTickArgs == {0, 1}

C29_WakeupRestoresSleeper ==
    Running =>
        \A pid \in Pids, d \in SleepTickArgs :
            LET t0 == find_task(cfs, pid) IN
            t0 # NULL =>
                LET slept == cfs_sleep(World, pid)
                    s == IF d = 1 THEN cfs_tick(slept) ELSE slept
                    wk == cfs_wakeup(s, pid)
                    t == find_task(wk.cfs, pid)
                    weight == s.cfs.task[t0].weight
                    placed == max64(s.cfs.task[t0].vruntime, s.cfs.min_vruntime)
                    credit == Min(cfs_calc_delta(cfs_sched_latency(s.cfs) \div 2, weight),
                                  cfs_calc_delta(d, weight) \div 2)
                IN /\ t # NULL
                   /\ wk.cfs.task[t].on_rq
                   /\ wk.cfs.nr_running = s.cfs.nr_running + 1
                   /\ wk.cfs.load_weight = s.cfs.load_weight + weight
                   /\ wk.cfs.task[t].vruntime =
                          (IF placed > credit THEN placed - credit ELSE 0)

(* ---------------------------------------------------------------------- *)
(* C30: in every reachable state every queued node of the priority policy  *)
(* has base_priority <= current_priority <= PRIORITY_MAX: aging and boosts *)
(* stop at PRIORITY_MAX and decay stops at base_priority.                  *)
(* ---------------------------------------------------------------------- *)

C30_PriorityWithinBounds ==
    \A n \in PrioQueued(prio) :
        /\ prio.node[n].base_priority <= prio.node[n].current_priority
        /\ prio.node[n].current_priority <= PRIORITY_MAX

(* One queued node has risen from its base priority to PRIORITY_MAX and    *)
(* another one is at its base priority after ticks have passed.            *)
C30_Witness ==
    /\ prio.ticks = MaxSatTicks
    /\ \E n \in PrioQueued(prio) :
          /\ prio.node[n].base_priority < PRIORITY_MAX
          /\ prio.node[n].current_priority = PRIORITY_MAX
    /\ \E n \in PrioQueued(prio) :
          prio.node[n].current_priority = prio.node[n].base_priority

(* ---------------------------------------------------------------------- *)
(* C31: whenever a tick brings the running node's time_remaining to zero,  *)
(* at the end of that tick need_resched is true and the node that          *)
(* round_robin_pick_next now returns has time_remaining equal to the       *)
(* quantum, also when the queue holds a single process.                    *)
(* ---------------------------------------------------------------------- *)

(* The slice of the running node ends with the next tick.                  *)
QuantumExpires ==
    /\ rr.current # NULL
    /\ rr.node[rr.current].pid = kern.currpid
    /\ rr.node[rr.current].time_remaining = 1

C31_ExpiryResetsSlice ==
    [][(RRTick /\ QuantumExpires) =>
          /\ kern'.need_resched
          /\ rr'.current # NULL
          /\ rr'.node[rr'.current].time_remaining = rr'.quantum]_vars

(* ---------------------------------------------------------------------- *)
(* C32: after realtime_schedule() returns under EDF the running task has   *)
(* the smallest absolute_deadline among the runnable tasks (READY or       *)
(* RUNNING), and a runnable task exists only if some task is running.      *)
(* ---------------------------------------------------------------------- *)

RtRunnable(r) ==
    {t \in DOMAIN r.task : r.task[t].state \in {"READY", "RUNNING"}}

EdfSelected(r) ==
    /\ RtRunnable(r) # {} => r.current_task # NULL
    /\ r.current_task # NULL =>
          \A t \in RtRunnable(r) :
              r.task[r.current_task].absolute_deadline <= r.task[t].absolute_deadline

C32_EdfRunsEarliestDeadline ==
    [][(RunSchedule /\ ~rt'.hung) => EdfSelected(rt')]_vars

(* ---------------------------------------------------------------------- *)
(* C33: whenever yield(), preempt() or schedule() returns and the process  *)
(* that ends up as currpid was not blocked or exited, exactly one process  *)
(* has state PR_CURR and it is currpid.  Checked for round robin, from     *)
(* states in which currpid is queued and is the one process in PR_CURR.    *)
(* ---------------------------------------------------------------------- *)

OneRunning(k) == {p \in Pids : k.pstate[p] = "PR_CURR"} = {k.currpid}

C33_OneProcessRunning ==
    [][((RRYield \/ RRPreempt \/ RRSchedule)
          /\ OneRunning(kern)
          /\ rr_find_node(rr, kern.currpid) # NULL
          /\ kern'.pstate[kern'.currpid] \in {"PR_CURR", "PR_READY"})
       => OneRunning(kern')]_vars

(* ---------------------------------------------------------------------- *)
(* C34: the priority policy loses no runnable process: a process that was  *)
(* dispatched from the ready list and is displaced by schedule() while     *)
(* still PR_CURR is back on the ready list when schedule() returns.        *)
(* kern.ctx tells that the operation before this one dispatched currpid.   *)
(* ---------------------------------------------------------------------- *)

C34_DisplacedProcessRequeued ==
    [][(FwSchedule
          /\ kern.current_scheduler = "prio_ops"
          /\ kern.ctx
          /\ kern.pstate[kern.currpid] = "PR_CURR"
          /\ kern'.currpid # kern.currpid)
       => prio_find_node(prio', kern.currpid) # NULL]_vars

(* ---------------------------------------------------------------------- *)
(* C35: whenever priority_schedule, called through schedule() or           *)
(* resched(), switches the CPU from a process that is still PR_CURR to the *)
(* head of the ready list, the head's current priority is at least the     *)
(* priority of the process it replaces.                                    *)
(* ---------------------------------------------------------------------- *)

C35_NoDispatchDownwards ==
    [][((FwSchedule \/ FwResched)
          /\ kern.current_scheduler = "prio_ops"
          /\ kern.pstate[kern.currpid] = "PR_CURR"
          /\ kern'.currpid # kern.currpid)
       => priority_get(World, kern'.currpid) >= priority_get(World, kern.currpid)]_vars

(* ---------------------------------------------------------------------- *)
(* C36: after any sequence of create_task, enqueue, tick, schedule and     *)
(* dequeue, task_count equals the number of tasks reachable from all_tasks *)
(* (every task created and not dequeued is still in the registry):         *)
(* inserting a task into the ready list drops no task from the registry.   *)
(* ---------------------------------------------------------------------- *)

C36_RegistryKeepsTasks ==
    Running =>
        /\ ~RtCyclic(rt.task, rt.all_tasks)
        /\ rt.task_count = Cardinality(RtReach(rt.task, rt.all_tasks))

(* ---------------------------------------------------------------------- *)
(* C37: in every reachable state the real-time ready list is acyclic,      *)
(* holds each task at most once and holds only tasks in state READY, so    *)
(* every list walk of realtime_tick returns.                               *)
(* ---------------------------------------------------------------------- *)

C37_ReadyListWellFormed ==
    /\ ~rt.hung
    /\ ~RtCyclic(rt.task, rt.ready_queue)
    /\ \A t \in RtReach(rt.task, rt.ready_queue) : rt.task[t].state = "READY"

(* ---------------------------------------------------------------------- *)
(* C38: CFS loses no runnable task: a task taken off the timeline to run   *)
(* is back on the timeline when cfs_schedule, called directly or from      *)
(* cfs_tick, replaces it by another task, so that it is selected again.    *)
(* ---------------------------------------------------------------------- *)

C38_ReplacedTaskBackOnTimeline ==
    [][((CfsSchedule \/ CfsTick)
          /\ cfs.curr # NULL
          /\ cfs'.curr # NULL
          /\ cfs.task[cfs.curr].pid \in Pids
          /\ cfs'.task[cfs'.curr].pid \in Pids
          /\ cfs'.task[cfs'.curr].pid # cfs.task[cfs.curr].pid)
       => find_task(cfs', cfs.task[cfs.curr].pid) # NULL]_vars

(* ---------------------------------------------------------------------- *)
(* C39: for every ticket pool and every participant there is an output of  *)
(* random_next (a value in 0 .. RNG_MASK) for which lottery_draw returns   *)
(* that participant.                                                       *)
(* ---------------------------------------------------------------------- *)

C39_EveryParticipantCanWin ==
    \A e \in DOMAIN lot.entry :
        lot.entry[e].pid # NULL =>
            \E r \in 0..RNG_MASK : LotDrawAt(lot, r) = lot.entry[e].pid

(* ---------------------------------------------------------------------- *)
(* C40: no duplicate membership: each pid is represented by at most one    *)
(* task of the policy, counting the timeline and the current-task slot;    *)
(* cfs_enqueue of a pid that is already known, the running one included,   *)
(* allocates nothing.  Checked for CFS.                                    *)
(* ---------------------------------------------------------------------- *)

CfsInUse(q) ==
    {CfsChain(q)[i] : i \in 1..Len(CfsChain(q))} \cup ({q.curr} \ {NULL})

C40_OneTaskPerPid ==
    \A pid \in Pids :
        Cardinality({t \in CfsInUse(cfs) : cfs.task[t].pid = pid}) <= 1

====
